---- MODULE Spec2Model ----
(***************************************************************************)
(* Model of the content-personality pipeline of linkedin_post_analysis:    *)
(*   process_posts.py      the ingestion script that appends one JSON line *)
(*                         per annotated post to results.jsonl             *)
(*   charts/data_loader.py the record loader, the engagement loader, the   *)
(*                         inner join and the composite scores             *)
(*   charts/core_analyses/consistency_analysis.py  the z-score outliers    *)
(*                                                                         *)
(* Numbers.  A table cell is a record [k, n, d]:                           *)
(*   k = "int"   the integer n                                             *)
(*   k = "bool"  False (n = 0) or True (n = 1)                             *)
(*   k = "float" the finite float n / d, d > 0, in lowest terms            *)
(*   k = "inf"   +infinity (n = 1) or -infinity (n = -1)                   *)
(*   k = "nan"   NaN, which is also pandas' missing value                  *)
(*   k = "text"  a non-numeric string                                      *)
(* Quotients are exact rationals; a square root (a standard deviation, a   *)
(* z-score) is kept in hundredths, rounded down.                           *)
(***************************************************************************)
EXTENDS Integers, Sequences, FiniteSets, TLC

VARIABLES
    pc,              \* position in load_and_merge_data and the analysis after it
    jsonl,           \* results.jsonl: the sequence of its lines
    csv,             \* the engagement CSV: the sequence of its data rows
    personality_df,  \* load_personality_data's return value
    engagement_df,   \* load_engagement_data's return value
    merged_df,       \* the merged table
    outlier_posts,   \* detect_outlier_posts' return value
    error,           \* the exception that ended the run, "" when none
    sheet,           \* process_posts: number of rows of the spreadsheet's first column
    run_pc,          \* process_posts: position in main()
    done_ids,        \* process_posts: the set load_done_ids returned
    cursor,          \* process_posts: position of the loop in the posts
    runs,            \* process_posts: number of runs started so far, up to MaxRuns
    last_reply,      \* process_posts: what the loop met at its latest post
    rolling_data,         \* generate_evolution_tracking: its rolling means
    escalation_patterns,  \* detect_flag_escalation_patterns' return value
    flag_trends,          \* analyze_flag_trends' return value
    interval_trends,      \* analyze_flag_interval_trends' return value
    files,                \* the names of the files of the working directory
    suite_pc,             \* generate_all.main: position in analyses_to_run, 0 before it starts
    successful_runs,      \* generate_all.main: its counter
    reported,             \* generate_all: the errors run_analysis printed
    self_promotion_model, \* build_self_promotion_predictor's return value
    archetype_runs,       \* the results of the runs of the clustering engine so far
    archetype_engine      \* generate_content_archetypes: its position and locals

vars == <<pc, jsonl, csv, personality_df, engagement_df, merged_df,
          outlier_posts, error, sheet, run_pc, done_ids, cursor, runs,
          last_reply, rolling_data, escalation_patterns, flag_trends, interval_trends,
          files, suite_pc, successful_runs, reported,
          self_promotion_model, archetype_runs, archetype_engine>>

pipeline_vars == <<pc, csv, personality_df, engagement_df, merged_df,
                   outlier_posts, error>>

ingest_vars == <<sheet, run_pc, done_ids, cursor, runs, last_reply>>

trend_vars == <<rolling_data, escalation_patterns, flag_trends, interval_trends>>

suite_vars == <<files, suite_pc, successful_runs, reported>>

risk_vars == <<self_promotion_model>>

cluster_vars == <<archetype_runs, archetype_engine>>

analysis_vars == <<trend_vars, suite_vars, risk_vars, cluster_vars>>

----------------------------------------------------------------------------
(* Bounds of the model *)

MaxLines == 3        \* lines of results.jsonl in the join inputs
MaxRows == 2         \* data rows of the CSV in the join and rate inputs
MaxSheetPosts == 2   \* posts of the spreadsheet in the ingestion runs
MaxRuns == 2         \* runs of the ingestion script that are counted
OutlierPosts == 6    \* most posts of the outlier inputs
MaxTrendPosts == 22  \* most posts of the trend inputs
MaxRiskPosts == 9    \* most posts of the predictor inputs
MaxArchetypePosts == 9    \* most posts of the clustering inputs
MaxHighTraits == 4   \* most high traits of a centre in the label inputs
MinIntervalSize == 2 \* the small interval size of the interval analyzer

----------------------------------------------------------------------------
(* Cells and float arithmetic *)

IntCell(v) == [k |-> "int", n |-> v, d |-> 1]

BoolCell(b) == [k |-> "bool", n |-> IF b THEN 1 ELSE 0, d |-> 1]

NaN == [k |-> "nan", n |-> 0, d |-> 1]

Inf(sign) == [k |-> "inf", n |-> sign, d |-> 1]

Text == [k |-> "text", n |-> 0, d |-> 1]

Abs(x) == IF x < 0 THEN -x ELSE x

RECURSIVE Gcd(_, _)
Gcd(a, b) == IF b = 0 THEN a ELSE Gcd(b, a % b)

\* the finite float n / d (d # 0), in lowest terms with a positive denominator
Float(n, d) ==
    LET g == Gcd(Abs(n), Abs(d))
        s == IF d < 0 THEN -1 ELSE 1
    IN  [k |-> "float", n |-> (s * n) \div g, d |-> (s * d) \div g]

IsFinite(c) == c.k \in {"int", "bool", "float"}

\* IEEE division as numpy performs it on float64 values: x/0 is an infinity
\* or NaN, never an exception
Div(a, b) ==
    IF a.k = "nan" \/ b.k = "nan" THEN NaN
    ELSE IF b.n = 0
         THEN IF a.n = 0 THEN NaN
              ELSE IF a.n > 0 THEN Inf(1) ELSE Inf(-1)
         ELSE LET g == Gcd(Abs(a.n), Abs(b.n))
                  h == Gcd(a.d, b.d)
              IN  Float((a.n \div g) * (b.d \div h), (a.d \div h) * (b.n \div g))

Times(a, m) ==
    IF a.k = "nan" THEN NaN
    ELSE IF a.k = "inf" THEN Inf(IF m < 0 THEN -a.n ELSE a.n)
    ELSE Float(a.n * m, a.d)

\* m - a
MinusFrom(m, a) ==
    IF a.k = "nan" THEN NaN
    ELSE IF a.k = "inf" THEN Inf(-a.n)
    ELSE Float(m * a.d - a.n, a.d)

\* a < b on finite cells
Less(a, b) ==
    LET g == Gcd(a.d, b.d)
    IN  a.n * (b.d \div g) < b.n * (a.d \div g)

\* a = m for an integer m; False for NaN and the infinities
EqualsInt(a, m) == IsFinite(a) /\ a.n = m * a.d

RECURSIVE SqrtSearch(_, _, _)
SqrtSearch(x, lo, hi) ==
    IF lo >= hi THEN lo
    ELSE LET mid == (lo + hi + 1) \div 2
         IN  IF mid * mid <= x THEN SqrtSearch(x, mid, hi)
             ELSE SqrtSearch(x, lo, mid - 1)

\* floor of the square root of x >= 0
ISqrt(x) == SqrtSearch(x, 0, IF x < 40000 THEN x ELSE 40000)

\* the square root of num / den (den > 0) in hundredths
SqrtHundredths(num, den) == Float(ISqrt((num * 10000) \div den), 100)

\* the sum of s[lo..hi], by halves
RECURSIVE SeqSumOf(_, _, _)
SeqSumOf(s, lo, hi) ==
    IF lo > hi THEN 0
    ELSE IF lo = hi THEN s[lo]
    ELSE SeqSumOf(s, lo, (lo + hi) \div 2) + SeqSumOf(s, ((lo + hi) \div 2) + 1, hi)

SeqSum(s) == SeqSumOf(s, 1, Len(s))

Range(s) == {s[i] : i \in DOMAIN s}

\* the sequence itself, as a tuple whose entries are computed once
Held(s) == s \o <<>>

Reverse(s) == [i \in 1..Len(s) |-> s[Len(s) + 1 - i]]

Min(a, b) == IF a < b THEN a ELSE b

----------------------------------------------------------------------------
(* str() of a non-negative integer, as astype(str) and str(idx + 1) give it *)

Digits == <<"0", "1", "2", "3", "4", "5", "6", "7", "8", "9">>

RECURSIVE Str(_)
Str(n) == IF n < 10 THEN Digits[n + 1]
          ELSE Str(n \div 10) \o Digits[(n % 10) + 1]

----------------------------------------------------------------------------
(* results.jsonl.  A line is [kind, post_id, topic_tags, big_five,         *)
(* partner_traits, flags]:                                                 *)
(*   kind = "malformed"  json.loads raises JSONDecodeError                 *)
(*   kind = "array"      valid JSON that is not an object (a list)         *)
(*   kind = "object"     a JSON object; each nested dict is the sequence   *)
(*                       of its [key, val] items in file order             *)
(* post_id is [t, n, s]: absent, the JSON number n or the JSON string s.   *)

NoPid == [t |-> "absent", n |-> 0, s |-> ""]

IntPid(n) == [t |-> "int", n |-> n, s |-> ""]

StrPid(s) == [t |-> "str", n |-> 0, s |-> s]

Item(key, val) == [key |-> key, val |-> val]

ObjectLine(pid, tags, big_five, partner_traits, flags) ==
    [kind |-> "object", post_id |-> pid, topic_tags |-> tags,
     big_five |-> big_five, partner_traits |-> partner_traits, flags |-> flags]

MalformedLine ==
    [kind |-> "malformed", post_id |-> NoPid, topic_tags |-> <<>>,
     big_five |-> <<>>, partner_traits |-> <<>>, flags |-> <<>>]

ArrayLine ==
    [kind |-> "array", post_id |-> NoPid, topic_tags |-> <<>>,
     big_five |-> <<>>, partner_traits |-> <<>>, flags |-> <<>>]

\* the keys the annotation schema names
Big5Keys == {"openness", "conscientiousness", "extraversion", "agreeableness",
             "neuroticism"}

PartnerKeys == {"integrity_trust", "reliability", "collaboration", "adaptability",
                "risk_tolerance", "strategic_thinking", "leadership"}

FlagKeys == {"self_promotion", "humility", "controversial", "aggressive_language"}

\* col.startswith(prefix), over the columns the loader can create
StartsWith(col, prefix) ==
    \E key \in Big5Keys \cup PartnerKeys \cup FlagKeys : col = prefix \o key

Prefixed(prefix, dict) ==
    [i \in 1..Len(dict) |-> Item(prefix \o dict[i].key, dict[i].val)]

\* the flat_record of one parsed line: its columns in insertion order and
\* the value of each
FlattenRecord(record) ==
    LET items == <<Item("topic_count", IntCell(Len(record.topic_tags)))>>
                 \o Prefixed("big5_", record.big_five)
                 \o Prefixed("partner_", record.partner_traits)
                 \o Prefixed("flag_", record.flags)
        names == {items[i].key : i \in DOMAIN items}
        last(c) == CHOOSE i \in DOMAIN items :
                       /\ items[i].key = c
                       /\ \A j \in DOMAIN items : items[j].key = c => j <= i
        first(i) == \A j \in 1..(i - 1) : items[j].key # items[i].key
    IN  [post_id |-> record.post_id,
         topic_tags |-> record.topic_tags,
         cols |-> SelectSeq([i \in DOMAIN items |-> IF first(i) THEN items[i].key ELSE ""],
                            LAMBDA c : c # ""),
         v |-> [c \in names |-> items[last(c)].val]]

\* the lines of the file in order: a JSONDecodeError skips the line, any
\* other exception leaves the loop
RECURSIVE ParseLines(_, _)
ParseLines(lines, data) ==
    IF lines = <<>> THEN [error |-> "", data |-> data]
    ELSE LET line == Head(lines)
         IN  IF line.kind = "malformed" THEN ParseLines(Tail(lines), data)
             ELSE IF line.kind # "object"
                  THEN [error |-> "AttributeError", data |-> data]
                  ELSE ParseLines(Tail(lines), Append(data, FlattenRecord(line)))

\* the columns of pd.DataFrame(data): every key, in order of first appearance
RECURSIVE FrameColumns(_, _)
FrameColumns(data, cols) ==
    IF data = <<>> THEN cols
    ELSE FrameColumns(Tail(data),
                      cols \o SelectSeq(Head(data).cols, LAMBDA c : c \notin Range(cols)))

\* astype(str) of the post_id column
PidStr(p) == IF p.t = "str" THEN p.s
             ELSE IF p.t = "int" THEN Str(p.n)
             ELSE ""

NoFrame == [columns |-> <<>>, rows |-> <<>>]

\* load_personality_data: [error, df]
LoadPersonality(lines) ==
    LET parsed == ParseLines(lines, <<>>)
        data == parsed.data
        cols == FrameColumns(data, <<>>)
    IN  IF parsed.error # "" THEN [error |-> parsed.error, df |-> NoFrame]
        ELSE IF data = <<>> THEN [error |-> "KeyError", df |-> NoFrame]
        ELSE [error |-> "",
              df |-> [columns |-> <<"post_id", "topic_tags">> \o cols,
                      rows |-> [i \in DOMAIN data |->
                                  [post_id |-> PidStr(data[i].post_id),
                                   topic_tags |-> data[i].topic_tags,
                                   v |-> [c \in Range(cols) |->
                                            IF c \in DOMAIN data[i].v
                                            THEN data[i].v[c] ELSE NaN]]]]]

----------------------------------------------------------------------------
(* The engagement CSV.  A data row is [post_text, comments, likes,         *)
(* combined], each count a cell: an integer, or Text for a value that is   *)
(* blank or not a number.                                                  *)

CsvRow(comments, likes, combined) ==
    [post_text |-> Text, comments |-> comments, likes |-> likes,
     combined |-> combined]

\* pd.to_numeric(column, errors='coerce').fillna(0)
ToNumericFill0(raw) == IF raw.k = "int" THEN raw ELSE IntCell(0)

\* Series.max(): NaN for an empty column
RECURSIVE SeriesMax(_)
SeriesMax(cells) ==
    IF cells = <<>> THEN NaN
    ELSE LET rest == SeriesMax(Tail(cells))
         IN  IF rest.k = "nan" \/ Less(rest, Head(cells)) THEN Head(cells) ELSE rest

\* a variant that leaves the rate a fraction of the maximum
EngagementRateUnscaled(combined, max) == Div(combined, max)

\* engagement_rate of one row
EngagementRate(combined, max) == Times(Div(combined, max), 100)

\* comment_rate and like_rate of one row
ComponentRate(component, combined) == Times(Div(component, combined), 100)

\* a variant that numbers the rows from 1
EngagementPostIdFromOne(k) == Str(k + 1)

\* post_id of the row at zero-based position k
EngagementPostId(k) == Str(k + 3)

EngagementColumns == <<"post_id", "post_text", "comments", "likes", "combined",
                       "engagement_rate", "comment_rate", "like_rate">>

\* load_engagement_data on a file that exists
LoadEngagement(rows) ==
    LET comments == [i \in DOMAIN rows |-> ToNumericFill0(rows[i].comments)]
        likes == [i \in DOMAIN rows |-> ToNumericFill0(rows[i].likes)]
        combined == [i \in DOMAIN rows |-> ToNumericFill0(rows[i].combined)]
        max == SeriesMax(combined)
    IN  [columns |-> EngagementColumns,
         rows |-> [i \in DOMAIN rows |->
                     [post_id |-> EngagementPostId(i - 1),
                      v |-> [c \in Range(EngagementColumns) \ {"post_id"} |->
                               CASE c = "post_text" -> rows[i].post_text
                                 [] c = "comments" -> comments[i]
                                 [] c = "likes" -> likes[i]
                                 [] c = "combined" -> combined[i]
                                 [] c = "engagement_rate" ->
                                        EngagementRate(combined[i], max)
                                 [] c = "comment_rate" ->
                                        ComponentRate(comments[i], combined[i])
                                 [] c = "like_rate" ->
                                        ComponentRate(likes[i], combined[i])]]]]

----------------------------------------------------------------------------
(* pd.merge(personality_df, engagement_df, on='post_id', how='inner')      *)

\* the pairs (left row, right row) of the join, in the order of the result
RECURSIVE JoinPairs(_, _, _, _)
JoinPairs(left, right, i, j) ==
    IF i > Len(left) THEN <<>>
    ELSE LET js == SelectSeq([k \in 1..Len(right) |-> k],
                             LAMBDA k : k >= j /\ left[i].post_id = right[k].post_id)
         IN  [p \in DOMAIN js |-> <<i, js[p]>>] \o JoinPairs(left, right, i + 1, 1)

MergeInner(left, right) ==
    LET pairs == JoinPairs(left.rows, right.rows, 1, 1)
    IN  [columns |-> left.columns
                     \o SelectSeq(right.columns, LAMBDA c : c # "post_id"),
         rows |-> [p \in DOMAIN pairs |->
                     LET l == left.rows[pairs[p][1]]
                         r == right.rows[pairs[p][2]]
                     IN  [post_id |-> l.post_id,
                          topic_tags |-> l.topic_tags,
                          v |-> l.v @@ r.v]]]

----------------------------------------------------------------------------
(* create_composite_scores                                                 *)

\* the dtype pandas gives a column holding these cells
Dtype(df, c) ==
    LET kinds == {df.rows[i].v[c].k : i \in DOMAIN df.rows}
    IN  IF kinds \subseteq {"int"} THEN "int64"
        ELSE IF kinds \subseteq {"bool"} THEN "bool"
        ELSE IF kinds \subseteq {"int", "float", "inf", "nan"} THEN "float64"
        ELSE "object"

\* the columns the analyses treat as trait scores
TraitCols(df) ==
    SelectSeq(df.columns,
              LAMBDA c : /\ StartsWith(c, "big5_") \/ StartsWith(c, "partner_")
                         /\ Dtype(df, c) \in {"int64", "float64"})

\* the values of the row in these columns that are not missing
Present(row, cols) ==
    LET cells == [i \in DOMAIN cols |-> row.v[cols[i]]]
        kept == SelectSeq(cells, LAMBDA c : c.k # "nan")
    IN  [i \in DOMAIN kept |-> kept[i].n]

Squares(xs) == [i \in DOMAIN xs |-> xs[i] * xs[i]]

\* a variant that sums the row and does not divide
RowTotal(row, cols) ==
    LET xs == Present(row, cols)
    IN  IF xs = <<>> THEN NaN ELSE Float(SeqSum(xs), 1)

\* DataFrame.mean(axis=1) of one row: missing values are skipped
RowMean(row, cols) ==
    LET xs == Present(row, cols)
    IN  IF xs = <<>> THEN NaN ELSE Float(SeqSum(xs), Len(xs))

\* DataFrame.std(axis=1) of one row: the sample standard deviation (ddof = 1)
RowStd(row, cols) ==
    LET xs == Present(row, cols)
        cnt == Len(xs)
    IN  IF cnt < 2 THEN NaN
        ELSE SqrtHundredths(cnt * SeqSum(Squares(xs)) - SeqSum(xs) * SeqSum(xs),
                            cnt * (cnt - 1))

BrandConsistency(volatility) == MinusFrom(5, volatility)

PartnershipCols == <<"partner_integrity_trust", "partner_reliability",
                     "partner_collaboration">>

LeadershipCols == <<"partner_strategic_thinking", "big5_openness",
                    "partner_leadership">>

\* risk_weights, in the order of the dict
RiskFlags == <<"flag_controversial", "flag_aggressive_language", "flag_self_promotion">>

\* a variant that weighs every flag 1
RiskWeightUniform(flag) == 1

RiskWeight(flag) == IF flag = "flag_self_promotion" THEN 1 ELSE 2

\* professional_risk of one row: the flags whose column the table has
ProfessionalRisk(df, row) ==
    LET have == SelectSeq(RiskFlags, LAMBDA f : f \in Range(df.columns))
    IN  IntCell(SeqSum([i \in DOMAIN have |-> row.v[have[i]].n * RiskWeight(have[i])]))

CompositeColumns == <<"partnership_compatibility", "thought_leadership",
                      "trait_volatility", "brand_consistency", "professional_risk">>

\* create_composite_scores: [error, df]
CreateCompositeScores(df) ==
    LET trait_cols == TraitCols(df)
        flags == SelectSeq(RiskFlags, LAMBDA f : f \in Range(df.columns))
        composite(row) ==
            LET volatility == RowStd(row, trait_cols)
            IN  [c \in Range(CompositeColumns) |->
                   CASE c = "partnership_compatibility" -> RowMean(row, PartnershipCols)
                     [] c = "thought_leadership" -> RowMean(row, LeadershipCols)
                     [] c = "trait_volatility" -> volatility
                     [] c = "brand_consistency" -> BrandConsistency(volatility)
                     [] c = "professional_risk" -> ProfessionalRisk(df, row)]
    IN  IF ~ (Range(PartnershipCols) \cup Range(LeadershipCols) \subseteq Range(df.columns))
        THEN [error |-> "KeyError", df |-> NoFrame]
        ELSE IF \E i \in DOMAIN flags : \E r \in DOMAIN df.rows :
                    df.rows[r].v[flags[i]].k = "nan"
        THEN [error |-> "ValueError", df |-> NoFrame]
        ELSE [error |-> "",
              df |-> [columns |-> df.columns \o CompositeColumns,
                      rows |-> [r \in DOMAIN df.rows |->
                                  [df.rows[r] EXCEPT !.v = @ @@ composite(df.rows[r])]]]]

----------------------------------------------------------------------------
(* detect_outlier_posts.  A deviation is [nan, sqn, sqd, h]: NaN, or the   *)
(* |z| whose square is sqn / sqd and whose value in hundredths is h.       *)

NanDev == [nan |-> TRUE, sqn |-> 0, sqd |-> 1, h |-> 0]

ZeroDev == [nan |-> FALSE, sqn |-> 0, sqd |-> 1, h |-> 0]

\* count, sum and sum of squares of the present values of a column
ColumnStats(df, c) ==
    LET cells == [i \in DOMAIN df.rows |-> df.rows[i].v[c]]
        kept == SelectSeq(cells, LAMBDA x : x.k # "nan")
        xs == [i \in DOMAIN kept |-> kept[i].n]
    IN  [cnt |-> Len(xs), sum |-> SeqSum(xs), sq |-> SeqSum(Squares(xs))]

\* cnt * (cnt - 1) times the sample variance of the column
ScaledVar(st) == st.cnt * st.sq - st.sum * st.sum

\* trait_std > 0: False for the NaN of a column with fewer than two values
StdPositive(st) == st.cnt >= 2 /\ ScaledVar(st) > 0

\* abs((row[trait] - trait_mean) / trait_std), for a column with std > 0
ZScore(cell, st) ==
    IF cell.k = "nan" THEN NanDev
    ELSE LET num == (st.cnt * cell.n - st.sum) * (st.cnt * cell.n - st.sum)
                    * (st.cnt - 1)
             den == st.cnt * ScaledVar(st)
         IN  [nan |-> FALSE, sqn |-> num, sqd |-> den,
              h |-> ISqrt((num * 10000) \div den)]

\* a > b on deviations; every comparison with NaN is False
DevGreater(a, b) == ~ a.nan /\ ~ b.nan /\ a.sqn * b.sqd > b.sqn * a.sqd

\* dev > 2.0
ExceedsThreshold(dev) == ~ dev.nan /\ dev.sqn > 4 * dev.sqd

\* Python's max(): the first element, replaced by each later one greater than it
RECURSIVE PyMaxFrom(_, _)
PyMaxFrom(m, rest) ==
    IF rest = <<>> THEN m
    ELSE PyMaxFrom(IF DevGreater(Head(rest), m) THEN Head(rest) ELSE m, Tail(rest))

PyMax(devs) == PyMaxFrom(Head(devs), Tail(devs))

\* np.mean of the deviations, in hundredths
MeanDev(devs) ==
    IF \E i \in DOMAIN devs : devs[i].nan THEN NaN
    ELSE Float(SeqSum([i \in DOMAIN devs |-> devs[i].h]), 100 * Len(devs))

\* post_deviations of one row: one z-score per trait column whose std is positive
PostDeviations(df, row, trait_cols) ==
    LET used == SelectSeq(trait_cols, LAMBDA c : StdPositive(ColumnStats(df, c)))
    IN  [i \in DOMAIN used |-> ZScore(row.v[used[i]], ColumnStats(df, used[i]))]

\* [trait for trait, dev in zip(trait_cols, post_deviations) if dev > 2.0]
OutlierTraits(trait_cols, devs) ==
    LET n == Min(Len(trait_cols), Len(devs))
        names == [i \in 1..n |-> IF ExceedsThreshold(devs[i]) THEN trait_cols[i] ELSE ""]
    IN  SelectSeq(names, LAMBDA c : c # "")

\* the outlier record of one row
OutlierRecord(df, row, trait_cols) ==
    LET devs == PostDeviations(df, row, trait_cols)
    IN  [post_id |-> row.post_id,
         max_deviation |-> IF devs = <<>> THEN ZeroDev ELSE PyMax(devs),
         avg_deviation |-> IF devs = <<>> THEN IntCell(0) ELSE MeanDev(devs),
         outlier_traits |-> OutlierTraits(trait_cols, devs)]

DetectOutlierPosts(df) ==
    LET trait_cols == TraitCols(df)
        recs == [i \in DOMAIN df.rows |-> OutlierRecord(df, df.rows[i], trait_cols)]
    IN  SelectSeq(recs, LAMBDA r : ExceedsThreshold(r.max_deviation))

----------------------------------------------------------------------------
(* The trend analyzers: generate_evolution_tracking,                       *)
(* detect_flag_escalation_patterns, analyze_flag_trends and                *)
(* analyze_flag_interval_trends.  A Series is the sequence of its entries   *)
(* [pos, value], pos the position of the row in the sorted table.          *)

\* a + b on finite cells, over the least common denominator
Plus(a, b) ==
    LET g == Gcd(a.d, b.d)
    IN  Float(a.n * (b.d \div g) + b.n * (a.d \div g), (a.d \div g) * b.d)

\* a - b and a * b on finite cells
Minus(a, b) == Plus(a, [b EXCEPT !.n = -b.n])

Mul(a, b) ==
    LET g == Gcd(Abs(a.n), b.d)
        h == Gcd(Abs(b.n), a.d)
    IN  Float((a.n \div g) * (b.n \div h), (a.d \div h) * (b.d \div g))

\* the sum of cells[lo..hi], by halves
RECURSIVE CellSumOf(_, _, _)
CellSumOf(cells, lo, hi) ==
    IF lo > hi THEN Float(0, 1)
    ELSE IF lo = hi THEN Plus(cells[lo], Float(0, 1))
    ELSE Plus(CellSumOf(cells, lo, (lo + hi) \div 2),
              CellSumOf(cells, ((lo + hi) \div 2) + 1, hi))

CellSum(cells) == CellSumOf(cells, 1, Len(cells))

\* Series.mean(): the mean of the values that are not missing
SeriesMean(cells) ==
    LET seen == SelectSeq(cells, LAMBDA c : c.k # "nan")
        total == CellSum(seen)
    IN  IF seen = <<>> THEN NaN ELSE Float(total.n, total.d * Len(seen))

Column(df, c) == [i \in DOMAIN df.rows |-> df.rows[i].v[c]]

\* a column that rolling() cannot convert to float64
HasText(df, c) == \E i \in DOMAIN df.rows : df.rows[i].v[c].k = "text"

\* the largest post_id a table of the model holds
MaxPostId == MaxTrendPosts + 2

\* int(s) of astype(int): -1 stands for the ValueError of a string that is
\* no number
AsTypeInt(s) ==
    IF \E n \in 0..MaxPostId : Str(n) = s
    THEN CHOOSE n \in 0..MaxPostId : Str(n) = s
    ELSE -1

\* df['post_id_numeric'] = df['post_id'].astype(int): [error, df]
AddPostIdNumeric(df) ==
    LET nums == [i \in DOMAIN df.rows |-> AsTypeInt(df.rows[i].post_id)]
    IN  IF \E i \in DOMAIN nums : nums[i] < 0
        THEN [error |-> "ValueError", df |-> df]
        ELSE [error |-> "",
              df |-> [columns |-> IF "post_id_numeric" \in Range(df.columns)
                                  THEN df.columns
                                  ELSE Append(df.columns, "post_id_numeric"),
                      rows |-> [i \in DOMAIN df.rows |->
                                  [df.rows[i] EXCEPT
                                     !.v = ("post_id_numeric" :> IntCell(nums[i])) @@ @]]]]

\* the rows in the order of DataFrame.sort_values(column): rows with equal
\* keys keep their order
SortRows(rows, column, ascending) ==
    LET key(i) == rows[i].v[column].n
        first(j, i) == IF ascending THEN key(j) < key(i) ELSE key(j) > key(i)
        rank(i) == Cardinality({j \in DOMAIN rows :
                                  first(j, i) \/ (key(j) = key(i) /\ j < i)})
    IN  [p \in DOMAIN rows |-> rows[CHOOSE i \in DOMAIN rows : rank(i) = p - 1]]

SortValues(df, column, ascending) ==
    [df EXCEPT !.rows = SortRows(df.rows, column, ascending)]

window_size == 20

min_periods == 5

\* a variant that asks for one observation only
RollingMeanAnyPeriods(cells, window, periods) ==
    [i \in DOMAIN cells |->
       LET lo == IF i > window THEN i - window + 1 ELSE 1
           seen == SelectSeq(SubSeq(cells, lo, i), LAMBDA c : IsFinite(c))
           total == CellSum(seen)
       IN  IF Len(seen) >= 1 THEN Float(total.n, total.d * Len(seen))
           ELSE NaN]

\* Series.rolling(window, min_periods).mean(): the mean of the observations
\* among the last `window` values, NaN when fewer than min_periods of them
\* are observations; NaN and the infinities are no observations
RollingMean(cells, window, periods) ==
    [i \in DOMAIN cells |->
       LET lo == IF i > window THEN i - window + 1 ELSE 1
           seen == SelectSeq(SubSeq(cells, lo, i), LAMBDA c : IsFinite(c))
           total == CellSum(seen)
       IN  IF Len(seen) >= periods THEN Float(total.n, total.d * Len(seen))
           ELSE NaN]

Series(cells) == [i \in DOMAIN cells |-> [pos |-> i, value |-> cells[i]]]

Dropna(series) == SelectSeq(series, LAMBDA e : e.value.k # "nan")

\* what an analyzer returns: the post_ids of its sorted table and one
\* Series per column
TrendResult(df_sorted, series) ==
    [done |-> TRUE, error |-> "",
     post_ids |-> [i \in DOMAIN df_sorted.rows |-> df_sorted.rows[i].post_id],
     series |-> series]

\* an analyzer that raised
TrendError(e) == [done |-> TRUE, error |-> e, post_ids |-> <<>>, series |-> <<>>]

\* a finite cell in ten-thousandths, rounded down
TenThousandths(c) == (c.n \div c.d) * 10000 + ((c.n % c.d) * 10000) \div c.d

\* the least-squares line through the points (0, y[1]), (1, y[2]), ...,
\* with the y values taken in ten-thousandths: the slope is
\* cov / (10000 * var_x), where cov and var_x are the covariance and the
\* variance of x, both scaled by the square of the number of points
LinearFit(y) ==
    LET m == Len(y)
        sum_x == (m * (m - 1)) \div 2
    IN  [cov |-> SeqSum([i \in DOMAIN y |-> (m * (i - 1) - sum_x) * TenThousandths(y[i])]),
         var_x |-> (m * m * (m * m - 1)) \div 12]

Slope(fit) == Float(fit.cov, 10000 * fit.var_x)

\* the values of a Series without its positions
Values(series) == [i \in DOMAIN series |-> series[i].value]

\* the least number of rolling values the drift and escalation analyzers
\* fit a line to is one more than this
min_observations == 10

DriftAnalysisOfAny(values) ==
    IF Len(values) > 1
    THEN LET fit == LinearFit(values)
         IN  <<[slope |-> Slope(fit),
                direction |-> IF fit.cov > 0 THEN "increasing"
                              ELSE IF fit.cov < 0 THEN "decreasing"
                              ELSE "stable"]>>
    ELSE <<>>

\* the entry of drift_analysis for a trait with these rolling values, none
\* for min_observations values or fewer.  The r_squared of a fitted line
\* is not followed
DriftAnalysis(values) ==
    IF Len(values) > min_observations
    THEN LET fit == LinearFit(values)
         IN  <<[slope |-> Slope(fit),
                direction |-> IF fit.cov > 0 THEN "increasing"
                              ELSE IF fit.cov < 0 THEN "decreasing"
                              ELSE "stable"]>>
    ELSE <<>>

\* slope and r_squared of the entry of trait_analyses, which there is for
\* a trait with a rolling value: those of drift_analysis, or 0 and 0
TraitAnalysis(values, drift) ==
    IF values = <<>> THEN <<>>
    ELSE IF drift # <<>> THEN <<[slope |-> drift[1].slope]>>
    ELSE <<[slope |-> IntCell(0), r_squared |-> IntCell(0)]>>

FlagCols(df) == SelectSeq(df.columns, LAMBDA c : StartsWith(c, "flag_"))

\* key_traits of generate_evolution_tracking
key_traits ==
    <<"big5_openness", "big5_conscientiousness", "big5_extraversion",
      "big5_agreeableness", "big5_neuroticism",
      "partner_integrity_trust", "partner_reliability", "partner_collaboration",
      "partner_adaptability", "partner_risk_tolerance", "partner_strategic_thinking",
      "partner_leadership",
      "engagement_rate", "comment_rate", "like_rate",
      "partnership_compatibility", "thought_leadership", "trait_volatility",
      "brand_consistency", "professional_risk">>

\* a variant that reverses the rows as the file lists them
EvolutionReversed(df) == [df EXCEPT !.rows = Reverse(df.rows)]

\* df_sorted of generate_evolution_tracking
EvolutionSorted(df) == SortValues(df, "post_id_numeric", FALSE)

\* rolling_data of generate_evolution_tracking: per trait of the table, the
\* rolling mean without its missing entries, with the trait's entries of
\* drift_analysis and trait_analyses
EvolutionRollingData(df) ==
    LET df_sorted == EvolutionSorted(df)
        have == SelectSeq(key_traits, LAMBDA t : t \in Range(df_sorted.columns))
    IN  IF \E i \in DOMAIN have : HasText(df_sorted, have[i])
        THEN TrendError("DataError")
        ELSE TrendResult(df_sorted,
                 [i \in DOMAIN have |->
                    LET values == Dropna(Series(RollingMean(Column(df_sorted, have[i]),
                                                            window_size, min_periods)))
                        drift == DriftAnalysis(Values(values))
                    IN  [column |-> have[i], values |-> values, drift |-> drift,
                         analysis |-> TraitAnalysis(values, drift)]])

\* df_sorted of detect_flag_escalation_patterns
EscalationSorted(df) == SortValues(df, "post_id_numeric", FALSE)

\* a variant that fits a line to two rolling values or more
\* escalation_score: max(0, slope * 100) of the line through the rolling
\* frequencies when there are more than min_observations of them, else 0
EscalationScore(rolling_freq) ==
    LET y == Values(Dropna(rolling_freq))
    IN  IF Len(y) > min_observations
        THEN LET fit == LinearFit(y)
             IN  IF fit.cov > 0 THEN Float(fit.cov, 100 * fit.var_x) ELSE IntCell(0)
        ELSE IntCell(0)

\* detect_flag_escalation_patterns: rolling_frequency and escalation_score
\* of every flag
DetectFlagEscalationPatterns(df) ==
    LET df_sorted == EscalationSorted(df)
        flag_cols == FlagCols(df)
    IN  IF \E i \in DOMAIN flag_cols : HasText(df_sorted, flag_cols[i])
        THEN TrendError("DataError")
        ELSE TrendResult(df_sorted,
                 [i \in DOMAIN flag_cols |->
                    LET rolling_freq == Series(RollingMean(Column(df_sorted, flag_cols[i]),
                                                           window_size, min_periods))
                    IN  [column |-> flag_cols[i], values |-> rolling_freq,
                         escalation_score |-> EscalationScore(rolling_freq)]])

\* a variant that sorts in pandas' default direction
FlagTrendsSortedAscending(df) == SortValues(df, "post_id_numeric", TRUE)

\* df_sorted of analyze_flag_trends
FlagTrendsSorted(df) == SortValues(df, "post_id_numeric", FALSE)

\* Series.astype(int) of a flag column raises on a missing or non-numeric value
IntConvertible(df, c) == \A i \in DOMAIN df.rows : df.rows[i].v[c].k \in {"bool", "int"}

FlagAsInt(cells) == [i \in DOMAIN cells |-> IntCell(cells[i].n)]

\* analyze_flag_trends: rolling_mean and post_ids of every flag; linregress
\* raises on an empty table
AnalyzeFlagTrends(df) ==
    LET df_sorted == FlagTrendsSorted(df)
        flag_cols == FlagCols(df)
    IN  IF \E i \in DOMAIN flag_cols : ~ IntConvertible(df_sorted, flag_cols[i])
        THEN TrendError("ValueError")
        ELSE IF flag_cols # <<>> /\ df_sorted.rows = <<>>
        THEN TrendError("ValueError")
        ELSE TrendResult(df_sorted,
                 [i \in DOMAIN flag_cols |->
                    [column |-> flag_cols[i],
                     values |-> Series(RollingMean(FlagAsInt(Column(df_sorted, flag_cols[i])),
                                                   window_size, min_periods))]])

\* the interval_size generate_behavioral_flags passes
interval_size == 50

\* df_sorted of analyze_flag_interval_trends
IntervalSorted(df) == SortValues(df, "post_id_numeric", FALSE)

\* the dead zone of the direction of analyze_flag_interval_trends, in
\* hundredths
slope_threshold == 1

\* the trend statistics of analyze_flag_interval_trends for these
\* frequencies: a line is fitted to more than two of them (slope > 0.01 is
\* cov > 100 * var_x).  The labels are kept without their leading
\* pictograph; the r_squared of a fitted line is not followed
IntervalTrend(frequencies) ==
    IF Len(frequencies) > 2
    THEN IF \E i \in DOMAIN frequencies : ~ IsFinite(frequencies[i])
         THEN [slope |-> NaN, trend_direction |-> "Stable"]
         ELSE LET fit == LinearFit(frequencies)
              IN  [slope |-> Slope(fit),
                   trend_direction |->
                       IF fit.cov > 100 * slope_threshold * fit.var_x THEN "Increasing"
                       ELSE IF fit.cov < - 100 * slope_threshold * fit.var_x
                       THEN "Decreasing"
                       ELSE "Stable"]
    ELSE [slope |-> IntCell(0), r_squared |-> IntCell(0),
          trend_direction |-> "Insufficient data"]

\* analyze_flag_interval_trends: the frequencies of every flag, one per
\* full interval of `size` posts, and their trend
AnalyzeFlagIntervalTrends(df, size) ==
    LET df_sorted == IntervalSorted(df)
        flag_cols == FlagCols(df)
        total_posts == Len(df_sorted.rows)
        num_intervals == total_posts \div size
        frequency(flag, i) ==
            SeriesMean(SubSeq(Column(df_sorted, flag), (i - 1) * size + 1,
                              Min(i * size, total_posts)))
    IN  IF num_intervals > 0 /\ \E i \in DOMAIN flag_cols : HasText(df_sorted, flag_cols[i])
        THEN TrendError("TypeError")
        ELSE TrendResult(df_sorted,
                 [f \in DOMAIN flag_cols |->
                    LET frequencies == Held([i \in 1..num_intervals |->
                                                frequency(flag_cols[f], i)])
                    IN  [column |-> flag_cols[f],
                         values |-> Series(frequencies),
                         trend |-> IntervalTrend(frequencies)]])

----------------------------------------------------------------------------
(* risk_assessment.py: prepare_risk_features and                           *)
(* build_self_promotion_predictor.  X is kept by column: X[f][i] is the    *)
(* value of feature f in row i.  The rows train_test_split puts in the     *)
(* test set are an argument: with random_state=42 they depend on the       *)
(* number of rows and on y only.                                           *)

engagement_cols == <<"engagement_rate", "comment_rate", "like_rate">>

composite_cols == <<"partnership_compatibility", "thought_leadership",
                    "trait_volatility", "brand_consistency">>

\* feature_cols of prepare_risk_features
FeatureCols(df) ==
    SelectSeq(df.columns, LAMBDA c : StartsWith(c, "big5_") \/ StartsWith(c, "partner_"))
    \o engagement_cols \o composite_cols

\* one column of X.fillna(X.mean()): the mean is taken over every row of
\* the table
FillnaMean(cells) ==
    LET mean == IF \A i \in DOMAIN cells : cells[i].k = "nan" \/ IsFinite(cells[i])
                THEN SeriesMean(cells) ELSE NaN
    IN  [i \in DOMAIN cells |-> IF cells[i].k = "nan" THEN mean ELSE cells[i]]

\* X of prepare_risk_features
PrepareRiskFeatures(df) ==
    LET cols == FeatureCols(df)
    IN  [f \in DOMAIN cols |-> FillnaMean(Column(df, cols[f]))]

\* y = df['flag_self_promotion'].astype(int)
Target(df) == [i \in DOMAIN df.rows |-> df.rows[i].v["flag_self_promotion"].n]

Classes(y) == {y[i] : i \in DOMAIN y}

ClassCount(y, c) == Cardinality({i \in DOMAIN y : y[i] = c})

\* ceil(0.2 * n), the size of the test set
NTest(n) == (n + 4) \div 5

\* the numbers of rows per class that StratifiedShuffleSplit gives the
\* training set: the floor of the class's share of n_train, and the rows
\* that are left to the classes with the largest remainders, ties drawn
TrainShares(y) ==
    LET n == Len(y)
        n_train == n - NTest(n)
        floored(c) == (n_train * ClassCount(y, c)) \div n
        remainder(c) == (n_train * ClassCount(y, c)) % n
    IN  {t \in [Classes(y) -> 0..n] :
            /\ \A c \in Classes(y) : t[c] \in {floored(c), floored(c) + 1}
            /\ n_train = SeqSum([j \in 1..2 |->
                                   IF (j - 1) \in Classes(y) THEN t[j - 1] ELSE 0])
            /\ \A c, d \in Classes(y) :
                  t[c] > floored(c) /\ t[d] = floored(d) => remainder(c) >= remainder(d)}

\* the test sets train_test_split(test_size=0.2, stratify=y) can return
TestSets(y) ==
    {T \in SUBSET DOMAIN y :
        \E t \in TrainShares(y) :
            \A c \in Classes(y) :
                Cardinality({i \in T : y[i] = c}) = ClassCount(y, c) - t[c]}

\* train_test_split raises ValueError
SplitRaises(y) ==
    LET n == Len(y)
    IN  \/ n = 0
        \/ \E c \in Classes(y) : ClassCount(y, c) < 2
        \/ n - NTest(n) < Cardinality(Classes(y))
        \/ NTest(n) < Cardinality(Classes(y))

\* the values of the series at these positions, in order
Take(cells, rows) == SelectSeq([i \in DOMAIN cells |-> IF i \in rows THEN <<cells[i]>> ELSE <<>>],
                               LAMBDA x : x # <<>>)

Rows(cells, rows) == LET kept == Take(cells, rows) IN [i \in DOMAIN kept |-> kept[i][1]]

\* StandardScaler.fit on one column: mean_ and var_
ScalerMean(cells) == LET total == CellSum(cells) IN Float(total.n, total.d * Len(cells))

ScalerVar(cells) ==
    LET squares == CellSum([i \in DOMAIN cells |-> Mul(cells[i], cells[i])])
        mean == ScalerMean(cells)
    IN  Minus(Float(squares.n, squares.d * Len(cells)), Mul(mean, mean))

\* f_classif on one column: the ANOVA F of the classes of y
FClassif(cells, y) ==
    LET n == Len(cells)
        classes == SelectSeq(<<0, 1>>, LAMBDA c : c \in Classes(y))
        of(c) == Rows(cells, {i \in DOMAIN y : y[i] = c})
        square(x) == Mul(x, x)
        within == CellSum([j \in DOMAIN classes |->
                             LET total == CellSum(of(classes[j]))
                             IN  Float(square(total).n, square(total).d * Len(of(classes[j])))])
        total == CellSum(cells)
        squares == CellSum([i \in DOMAIN cells |-> square(cells[i])])
        ssb == Minus(within, Float(square(total).n, square(total).d * n))
        ssw == Minus(squares, within)
        msb == Div(ssb, IntCell(Len(classes) - 1))
        msw == Div(ssw, IntCell(n - Len(classes)))
    IN  Div(msb, msw)

\* the order of np.argsort on the scores, NaN counted as the least value
ScoreLess(a, b) ==
    IF a.k = "nan" THEN b.k # "nan"
    ELSE IF b.k = "nan" THEN FALSE
    ELSE IF a.k = "inf" THEN FALSE
    ELSE IF b.k = "inf" THEN TRUE
    ELSE Less(a, b)

KBest == 10

cv == 5

\* SelectKBest(f_classif, k).get_support(indices=True): the k columns last
\* in the stable ascending order of the scores
SelectKBest(scores, k) ==
    LET before(i, j) == \/ ScoreLess(scores[i], scores[j])
                        \/ ~ ScoreLess(scores[j], scores[i]) /\ i < j
    IN  SelectSeq([j \in DOMAIN scores |-> j],
                  LAMBDA j : Cardinality({i \in DOMAIN scores : before(j, i)}) < k)

\* an exception of build_self_promotion_predictor
ModelError(e) ==
    [done |-> TRUE, error |-> e, test |-> {}, scaler_mean |-> <<>>,
     scaler_var |-> <<>>, selected_features |-> <<>>]

\* build_self_promotion_predictor(df) with `test` the rows of the test set:
\* the fitted scaler and the selected features, or the exception
BuildSelfPromotionPredictor(df, test) ==
    IF "flag_self_promotion" \notin Range(df.columns) THEN ModelError("KeyError")
    ELSE IF ~ IntConvertible(df, "flag_self_promotion") THEN ModelError("ValueError")
    ELSE
    LET feature_cols == FeatureCols(df)
        X == PrepareRiskFeatures(df)
        y == Target(df)
        train == DOMAIN y \ test
        X_train == [f \in DOMAIN X |-> Rows(X[f], train)]
        y_train == Rows(y, train)
        y_test == Rows(y, test)
        scores == [f \in DOMAIN X |-> FClassif(X_train[f], y_train)]
    IN  IF SplitRaises(y) THEN ModelError("ValueError")
        ELSE IF \E f \in DOMAIN X : \E i \in DOMAIN X[f] : ~ IsFinite(X[f][i])
        THEN ModelError("ValueError")
        ELSE IF KBest > Len(feature_cols) THEN ModelError("ValueError")
        ELSE IF Cardinality(Classes(y_train)) < 2 THEN ModelError("ValueError")
        ELSE IF \A c \in Classes(y_train) : ClassCount(y_train, c) < cv
        THEN ModelError("ValueError")
        ELSE IF Cardinality(Classes(y_test)) < 2 THEN ModelError("ValueError")
        ELSE [done |-> TRUE, error |-> "", test |-> test,
              scaler_mean |-> [f \in DOMAIN X |-> ScalerMean(X_train[f])],
              scaler_var |-> [f \in DOMAIN X |-> ScalerVar(X_train[f])],
              selected_features |->
                  LET best == SelectKBest(scores, KBest)
                  IN  [j \in DOMAIN best |-> feature_cols[best[j]]]]

----------------------------------------------------------------------------
(* content_archetypes.py: the clustering engine.  A standardised score     *)
(* (x - mean) / std is kept exact as its numerator n*x - sum(x) together   *)
(* with the square of its divisor, so squared distances are rationals;     *)
(* distances are square roots in hundredths and silhouette values are in   *)
(* ten-thousandths.  numpy's generator is a linear congruential stream:    *)
(* what the engine uses of it is that the stream is a function of its seed.*)

max_clusters == 8

n_init == 10

random_state == 42

\* random_state=None
None == [k |-> "none", n |-> 0, d |-> 1]

\* the state of a generator after one more draw
Advance(state) == (75 * state + 74) % 65537

\* the states after each of the next m draws
RECURSIVE Draws(_, _)
Draws(state, m) ==
    IF m = 0 THEN <<>> ELSE <<Advance(state)>> \o Draws(Advance(state), m - 1)

\* check_random_state(seed): a generator seeded with the int, or the one
\* generator of the process for None
CheckRandomState(seed, global) == IF seed.k = "none" THEN global ELSE seed.n % 65537

\* random_state.randint(n) and random_state.uniform() for a drawn state
Randint(state, n) == state % n

Uniform(state) == Float(2 * (state % 64) + 1, 128)

\* trait_cols of prepare_clustering_data
ClusterTraitCols(df) ==
    SelectSeq(df.columns, LAMBDA c : StartsWith(c, "big5_") \/ StartsWith(c, "partner_"))

\* prepare_clustering_data: X_scaled[i][f] is D[i][f] / sqrt(W[f]); the
\* scaler's mean_ is total / n.  The scores of these tables are whole
\* numbers, text or missing.
PrepareClusteringData(df) ==
    LET trait_cols == ClusterTraitCols(df)
        n == Len(df.rows)
        cell(i, f) == df.rows[i].v[trait_cols[f]]
        kinds == {cell(i, f).k : i \in 1..n, f \in DOMAIN trait_cols}
        total == [f \in DOMAIN trait_cols |-> SeqSum([i \in 1..n |-> cell(i, f).n])]
        squares == [f \in DOMAIN trait_cols |->
                      SeqSum([i \in 1..n |-> cell(i, f).n * cell(i, f).n])]
        V == [f \in DOMAIN trait_cols |-> n * squares[f] - total[f] * total[f]]
    IN  IF n = 0 \/ trait_cols = <<>> \/ "text" \in kinds
        THEN [error |-> "ValueError", finite |-> FALSE, trait_cols |-> trait_cols,
              n |-> n, total |-> <<>>, D |-> <<>>, W |-> <<>>]
        ELSE IF kinds # {"int"}
        THEN [error |-> "", finite |-> FALSE, trait_cols |-> trait_cols,
              n |-> n, total |-> <<>>, D |-> <<>>, W |-> <<>>]
        ELSE [error |-> "", finite |-> TRUE, trait_cols |-> trait_cols,
              n |-> n, total |-> total,
              D |-> [i \in 1..n |->
                       [f \in DOMAIN trait_cols |-> IntCell(n * cell(i, f).n - total[f])]],
              W |-> [f \in DOMAIN trait_cols |-> IF V[f] = 0 THEN n * n ELSE V[f]]]

\* the squared Euclidean distance of two rows of the scaled space
Dist2(X, p, c) ==
    LET apart == SelectSeq([f \in DOMAIN X.W |-> f],
                           LAMBDA f : p[f].n * c[f].d # c[f].n * p[f].d)
    IN  CellSum([j \in DOMAIN apart |->
                    LET diff == Minus(p[apart[j]], c[apart[j]])
                    IN  Div(Mul(diff, diff), IntCell(X.W[apart[j]]))])

CellMin(a, b) == IF Less(b, a) THEN b ELSE a

\* np.argmin of a sequence of cells: the first least position
ArgMin(cells) ==
    CHOOSE j \in DOMAIN cells :
        \A o \in DOMAIN cells :
            Less(cells[j], cells[o]) \/ (~ Less(cells[o], cells[j]) /\ j <= o)

\* n_local_trials = 2 + int(np.log(k)) for k up to max_clusters
NLocalTrials(k) == 2 + (IF k < 3 THEN 0 ELSE IF k < 8 THEN 1 ELSE 2)

\* np.searchsorted(cumsum, v), clipped to the last position
SearchSorted(cumsum, v) ==
    LET hits == {i \in DOMAIN cumsum : ~ Less(cumsum[i], v)}
    IN  IF hits = {} THEN Len(cumsum)
        ELSE CHOOSE i \in hits : \A j \in hits : i <= j

\* one turn of the loop of _kmeans_plusplus: the best of the candidate
\* rows becomes the next centre
NextCentre(X, k, init) ==
    LET trials == NLocalTrials(k)
        current_pot == CellSum(init.closest_dist_sq)
        cumsum == Held([i \in DOMAIN X.D |-> CellSum(SubSeq(init.closest_dist_sq, 1, i))])
        states == Draws(init.rng, trials)
        candidate_ids == Held([t \in 1..trials |->
                                 SearchSorted(cumsum, Mul(Uniform(states[t]), current_pot))])
        distance_to_candidates ==
            Held([t \in 1..trials |->
                    Held([i \in DOMAIN X.D |->
                            CellMin(init.closest_dist_sq[i],
                                    Dist2(X, X.D[i], X.D[candidate_ids[t]]))])])
        candidates_pot == Held([t \in 1..trials |-> CellSum(distance_to_candidates[t])])
        best_candidate == ArgMin(candidates_pot)
    IN  [centers |-> Append(init.centers, candidate_ids[best_candidate]),
         closest_dist_sq |-> distance_to_candidates[best_candidate],
         rng |-> states[trials]]

\* _kmeans_plusplus after the first centre: the rows chosen as centres and
\* the generator's state
RECURSIVE KMeansPlusPlus(_, _, _)
KMeansPlusPlus(X, k, init) ==
    IF Len(init.centers) = k THEN init ELSE KMeansPlusPlus(X, k, NextCentre(X, k, init))

\* _init_centroids with init='k-means++'
InitCentroids(X, k, rng) ==
    LET first == Advance(rng)
        center_id == Randint(first, X.n) + 1
    IN  KMeansPlusPlus(X, k,
                       [centers |-> <<center_id>>,
                        closest_dist_sq |->
                            [i \in DOMAIN X.D |-> Dist2(X, X.D[i], X.D[center_id])],
                        rng |-> first])

\* the E step of lloyd_iter: the nearest centre of every row
Labels(X, centers) ==
    [i \in DOMAIN X.D |-> ArgMin([c \in DOMAIN centers |-> Dist2(X, X.D[i], centers[c])])]

\* the M step of lloyd_iter: the mean of every cluster's rows.  A cluster
\* is left without rows only where rows coincide (there are more centres
\* than distinct rows): every row then lies on a centre, and moving the
\* empty cluster's centre onto a row, as _relocate_empty_clusters does,
\* leaves the groups of rows as they are; the centre is kept in place
Means(X, labels, centers) ==
    [c \in DOMAIN centers |->
        LET members == {i \in DOMAIN labels : labels[i] = c}
        IN  IF members = {} THEN centers[c]
            ELSE [f \in DOMAIN X.W |->
                     Float(SeqSum([i \in DOMAIN labels |->
                                     IF i \in members THEN X.D[i][f].n ELSE 0]),
                           Cardinality(members))]]

\* _inertia
Inertia(X, labels, centers) ==
    CellSum([i \in DOMAIN labels |-> Dist2(X, X.D[i], centers[labels[i]])])

\* _kmeans_single_lloyd: iterate until the labels repeat
RECURSIVE Lloyd(_, _, _)
Lloyd(X, centers, labels_old) ==
    LET labels == Labels(X, centers)
        centers_new == Means(X, labels, centers)
    IN  IF labels = labels_old
        THEN [labels |-> labels, centers |-> centers_new,
              inertia |-> Inertia(X, labels, centers_new)]
        ELSE Lloyd(X, centers_new, labels)

\* _is_same_clustering
SameClustering(a, b) ==
    \A i, j \in DOMAIN a : (a[i] = a[j]) <=> (b[i] = b[j])

\* one turn of the n_init loop of KMeans.fit: kmeans_single from the centres
\* of _init_centroids; a run replaces the best one so far when its inertia
\* is less and its clustering another
NextRun(X, k, fit) ==
    LET init == InitCentroids(X, k, fit.rng)
        run == Lloyd(X, [c \in 1..k |-> X.D[init.centers[c]]], [i \in DOMAIN X.D |-> 0])
        better == \/ fit.labels = <<>>
                  \/ /\ Less(run.inertia, fit.inertia)
                     /\ ~ SameClustering(run.labels, fit.labels)
    IN  [runs |-> fit.runs + 1, rng |-> init.rng,
         labels |-> IF better THEN run.labels ELSE fit.labels,
         centers |-> IF better THEN run.centers ELSE fit.centers,
         inertia |-> IF better THEN run.inertia ELSE fit.inertia]

\* the n_init loop of KMeans.fit: the best of the runs and the generator's
\* state after them
RECURSIVE KMeansRuns(_, _, _, _)
KMeansRuns(X, k, inits, fit) ==
    IF fit.runs = inits THEN fit ELSE KMeansRuns(X, k, inits, NextRun(X, k, fit))

\* the fitted estimator; a generator made from a seed leaves the process's
\* generator as it was
Fitted(seed, global, fit) ==
    [error |-> "", labels |-> fit.labels, centers |-> fit.centers,
     global |-> IF seed.k = "none" THEN fit.rng ELSE global]

\* KMeans(n_clusters=k, random_state=seed, n_init=inits).fit_predict(X):
\* [error, labels, centers, global]
KMeans(X, k, seed, inits, global) ==
    IF ~ X.finite \/ X.n < k
    THEN [error |-> "ValueError", labels |-> <<>>, centers |-> <<>>, global |-> global]
    ELSE Fitted(seed, global,
                KMeansRuns(X, k, inits,
                           [runs |-> 0, rng |-> CheckRandomState(seed, global),
                            labels |-> <<>>, centers |-> <<>>, inertia |-> NaN]))

\* an estimator built without a seed
FitPredictUnseeded(X, k, global) == KMeans(X, k, None, n_init, global)

\* KMeans(n_clusters=k, random_state=42, n_init=10) and fit_predict
FitPredict(X, k, global) == KMeans(X, k, IntCell(random_state), n_init, global)

\* silhouette_score(X, labels) for 2 to n - 1 labels
SilhouetteScore(X, labels) ==
    LET rows == DOMAIN labels
        dist == [i \in rows |->
                   [j \in rows |->
                      LET d2 == Dist2(X, X.D[i], X.D[j])
                      IN  SqrtHundredths(d2.n, d2.d).n]]
        used == Range(labels)
        size == [c \in used |-> Cardinality({j \in rows : labels[j] = c})]
        total(i, c) == SeqSum([j \in rows |-> IF labels[j] = c THEN dist[i][j] ELSE 0])
        a(i) == Float(total(i, labels[i]), size[labels[i]] - 1)
        others(i) == {Float(total(i, c), size[c]) : c \in used \ {labels[i]}}
        b(i) == CHOOSE x \in others(i) : \A y \in others(i) : ~ Less(y, x)
        top(i) == IF Less(a(i), b(i)) THEN b(i) ELSE a(i)
        sample(i) == IF size[labels[i]] = 1 \/ top(i).n = 0 THEN 0
                     ELSE LET s == Div(Minus(b(i), a(i)), top(i))
                          IN  (s.n * 10000) \div s.d
    IN  Float(SeqSum([i \in rows |-> sample(i)]), 10000 * Len(labels))

\* a variant that takes the last greatest position
ArgMaxLast(cells) ==
    CHOOSE j \in DOMAIN cells :
        \A o \in DOMAIN cells :
            Less(cells[o], cells[j]) \/ (~ Less(cells[j], cells[o]) /\ j >= o)

\* np.argmax: the first greatest position
ArgMax(cells) ==
    CHOOSE j \in DOMAIN cells :
        \A o \in DOMAIN cells :
            Less(cells[o], cells[j]) \/ (~ Less(cells[j], cells[o]) /\ j <= o)

\* the engine between two runs
Idle ==
    [pc |-> "idle", entropy |-> 0, global |-> 0, X |-> <<>>, k |-> 0,
     silhouette_scores |-> <<>>, optimal_k |-> 0, labels |-> <<>>, centers |-> <<>>]

\* an exception of the engine
ArchetypeError(e) ==
    [error |-> e, optimal_k |-> 0, cluster_labels |-> <<>>, archetype_labels |-> <<>>]

\* silhouette_score raises unless there are 2 to n - 1 labels
SilhouetteRaises(X, labels) == Cardinality(Range(labels)) \notin 2..(X.n - 1)

\* one turn of the loop of find_optimal_clusters with the estimator fitted
\* for engine.k and its silhouette; after the last k,
\* optimal_k = K_range[np.argmax(silhouette_scores)]
FindOptimalClusters(engine, kmeans, score) ==
    LET scores == Append(engine.silhouette_scores, score)
    IN  IF engine.k < max_clusters
        THEN [engine EXCEPT !.k = engine.k + 1, !.global = kmeans.global,
                            !.silhouette_scores = scores]
        ELSE [engine EXCEPT !.pc = "cluster", !.global = kmeans.global,
                            !.silhouette_scores = scores,
                            !.optimal_k = 1 + ArgMax(scores)]

\* perform_clustering(X, n_clusters)
PerformClustering(X, n_clusters, global) == FitPredict(X, n_clusters, global)

\* trait.replace('big5_', '').replace('partner_', '').replace('_', ' ').title()
CleanTrait(trait) ==
    CASE trait = "big5_openness" -> "Openness"
      [] trait = "big5_conscientiousness" -> "Conscientiousness"
      [] trait = "big5_extraversion" -> "Extraversion"
      [] trait = "big5_agreeableness" -> "Agreeableness"
      [] trait = "big5_neuroticism" -> "Neuroticism"
      [] trait = "partner_integrity_trust" -> "Integrity Trust"
      [] trait = "partner_reliability" -> "Reliability"
      [] trait = "partner_collaboration" -> "Collaboration"
      [] trait = "partner_adaptability" -> "Adaptability"
      [] trait = "partner_risk_tolerance" -> "Risk Tolerance"
      [] trait = "partner_strategic_thinking" -> "Strategic Thinking"
      [] trait = "partner_leadership" -> "Leadership"

\* a variant that tries the Team Builder rule first
ArchetypeLabelTeamFirst(i, high_traits) ==
    LET high == Range(high_traits)
    IN  IF {"Collaboration", "Agreeableness"} \subseteq high THEN "Team Builder"
        ELSE IF {"Strategic Thinking", "Leadership"} \subseteq high THEN "Strategic Leader"
        ELSE IF {"Openness", "Risk Tolerance"} \subseteq high THEN "Innovation Pioneer"
        ELSE IF {"Conscientiousness", "Reliability"} \subseteq high THEN "Reliable Executor"
        ELSE IF {"Extraversion", "Leadership"} \subseteq high THEN "Charismatic Influencer"
        ELSE IF {"Integrity Trust", "Reliability"} \subseteq high THEN "Trusted Advisor"
        ELSE IF {"Adaptability", "Openness"} \subseteq high THEN "Adaptive Innovator"
        ELSE IF high_traits # <<>> THEN high_traits[1] \o " Focused"
        ELSE "Archetype " \o Str(i)

\* the label of archetype i (counted from 1) with these high traits
ArchetypeLabel(i, high_traits) ==
    LET high == Range(high_traits)
    IN  IF {"Strategic Thinking", "Leadership"} \subseteq high THEN "Strategic Leader"
        ELSE IF {"Collaboration", "Agreeableness"} \subseteq high THEN "Team Builder"
        ELSE IF {"Openness", "Risk Tolerance"} \subseteq high THEN "Innovation Pioneer"
        ELSE IF {"Conscientiousness", "Reliability"} \subseteq high THEN "Reliable Executor"
        ELSE IF {"Extraversion", "Leadership"} \subseteq high THEN "Charismatic Influencer"
        ELSE IF {"Integrity Trust", "Reliability"} \subseteq high THEN "Trusted Advisor"
        ELSE IF {"Adaptability", "Openness"} \subseteq high THEN "Adaptive Innovator"
        ELSE IF high_traits # <<>> THEN high_traits[1] \o " Focused"
        ELSE "Archetype " \o Str(i)

\* centers_original = scaler.inverse_transform(cluster_centers)
CentersOriginal(cluster_centers, X) ==
    [i \in DOMAIN cluster_centers |->
        [f \in DOMAIN X.trait_cols |->
            Div(Plus(cluster_centers[i][f], IntCell(X.total[f])), IntCell(X.n))]]

\* a variant that takes a trait for high only above 4.0
HighTraitsAbove(center, trait_cols) ==
    LET high == SelectSeq([f \in DOMAIN trait_cols |-> f],
                          LAMBDA f : Less(IntCell(4), center[f]))
    IN  [j \in DOMAIN high |-> CleanTrait(trait_cols[high[j]])]

\* high_traits of one center: if value >= 4.0
HighTraits(center, trait_cols) ==
    LET high == SelectSeq([f \in DOMAIN trait_cols |-> f],
                          LAMBDA f : ~ Less(center[f], IntCell(4)))
    IN  [j \in DOMAIN high |-> CleanTrait(trait_cols[high[j]])]

\* low_traits of one center: elif value <= 2.5
LowTraits(center, trait_cols) ==
    LET low == SelectSeq([f \in DOMAIN trait_cols |-> f],
                         LAMBDA f : Less(center[f], IntCell(4))
                                    /\ ~ Less(Float(5, 2), center[f]))
    IN  [j \in DOMAIN low |-> CleanTrait(trait_cols[low[j]])]

\* the locals of label_archetypes for every center: trait_profile,
\* high_traits and low_traits
TraitProfiles(cluster_centers, X) ==
    LET centers_original == CentersOriginal(cluster_centers, X)
    IN  [i \in DOMAIN cluster_centers |->
            [trait_profile |-> [f \in DOMAIN X.trait_cols |->
                                  [trait |-> X.trait_cols[f],
                                   value |-> centers_original[i][f]]],
             high_traits |-> HighTraits(centers_original[i], X.trait_cols),
             low_traits |-> LowTraits(centers_original[i], X.trait_cols)]]

\* label_archetypes(cluster_centers, trait_cols, scaler): archetype_labels
LabelArchetypes(cluster_centers, X) ==
    LET profiles == TraitProfiles(cluster_centers, X)
    IN  [i \in DOMAIN cluster_centers |-> ArchetypeLabel(i, profiles[i].high_traits)]

\* what a run of the engine leaves: optimal_k, the cluster of every post
\* and the archetype labels
Archetypes(engine) ==
    [error |-> "", optimal_k |-> engine.optimal_k, cluster_labels |-> engine.labels,
     archetype_labels |-> LabelArchetypes(engine.centers, engine.X)]

----------------------------------------------------------------------------
(* process_posts.py.  The spreadsheet is the sequence of the cells of its  *)
(* first column, TRUE for a cell that holds a post and FALSE for a blank   *)
(* one; the cell at zero-based row idx is sheet[idx + 1].                  *)

\* load_posts: the zero-based row indices of df.iloc[2:, 0].dropna(), in order
LoadPosts(cells) ==
    LET idx == [i \in 1..Len(cells) |-> i - 1]
    IN  SelectSeq(idx, LAMBDA i : i >= 2 /\ cells[i + 1])

\* the Excel row number that main() uses as post_id
ExcelRow(idx) == Str(idx + 1)

\* `if pid:` of load_done_ids
Truthy(pid) == (pid.t = "str" /\ pid.s # "") \/ (pid.t = "int" /\ pid.n # 0)

\* a variant that finds no identifier in the file
LoadNoDoneIds(lines, done) == [error |-> "", done |-> done]

\* load_done_ids: [error, done]
RECURSIVE LoadDoneIds(_, _)
LoadDoneIds(lines, done) ==
    IF lines = <<>> THEN [error |-> "", done |-> done]
    ELSE LET line == Head(lines)
         IN  IF line.kind = "malformed" THEN LoadDoneIds(Tail(lines), done)
             ELSE IF line.kind # "object"
                  THEN [error |-> "AttributeError", done |-> done]
                  ELSE LoadDoneIds(Tail(lines),
                                   IF Truthy(line.post_id)
                                   THEN done \cup {line.post_id} ELSE done)

\* what call_llm and json.loads make of one post: the call raises, the text
\* is not JSON ("malformed"), it is JSON but no object ("array"), or it is
\* an object
ExceptionReply ==
    [kind |-> "exception", post_id |-> NoPid, topic_tags |-> <<>>,
     big_five |-> <<>>, partner_traits |-> <<>>, flags |-> <<>>]

\* the line main() writes for a reply that parsed to an object
OutputLine(obj, excel_row) == [obj EXCEPT !.post_id = StrPid(excel_row)]

\* a variant that opens the file with mode "w"
OverwriteRecord(lines, line) == <<line>>

\* open(OUTPUT_FILE, "a"), write the line, flush
AppendRecord(lines, line) == Append(lines, line)

----------------------------------------------------------------------------
(* Inputs *)

Big5Dict(openness, conscientiousness) ==
    <<Item("openness", IntCell(openness)),
      Item("conscientiousness", IntCell(conscientiousness))>>

PartnerDict(integrity_trust, reliability, collaboration, strategic_thinking, leadership) ==
    <<Item("integrity_trust", IntCell(integrity_trust)),
      Item("reliability", IntCell(reliability)),
      Item("collaboration", IntCell(collaboration)),
      Item("strategic_thinking", IntCell(strategic_thinking)),
      Item("leadership", IntCell(leadership))>>

FlagDict(self_promotion, humility, controversial, aggressive_language) ==
    <<Item("self_promotion", BoolCell(self_promotion)),
      Item("humility", BoolCell(humility)),
      Item("controversial", BoolCell(controversial)),
      Item("aggressive_language", BoolCell(aggressive_language))>>

PlainTags == <<"Other">>

PlainPartner == PartnerDict(3, 3, 3, 3, 3)

PlainFlags == FlagDict(FALSE, FALSE, FALSE, FALSE)

\* an annotation with every score 3 and no flag set
PlainLine(pid) == ObjectLine(pid, PlainTags, Big5Dict(3, 3), PlainPartner, PlainFlags)

PlainRow == CsvRow(IntCell(1), IntCell(2), IntCell(3))

\* every sequence over S of length lo..hi
SeqsOf(S, lo, hi) == UNION {[1..n -> S] : n \in lo..hi}

\* the result of a trend analyzer that has not run
NoTrend == [done |-> FALSE, error |-> "", post_ids |-> <<>>, series |-> <<>>]

\* build_self_promotion_predictor has not run
NoModel ==
    [done |-> FALSE, error |-> "", test |-> {}, scaler_mean |-> <<>>,
     scaler_var |-> <<>>, selected_features |-> <<>>]

\* no analysis has run
AnalysisStart ==
    /\ rolling_data = NoTrend
    /\ escalation_patterns = NoTrend
    /\ flag_trends = NoTrend
    /\ interval_trends = NoTrend
    /\ self_promotion_model = NoModel
    /\ archetype_runs = <<>>
    /\ archetype_engine = Idle

\* the names of the two input files
PersonalityFile == "results.jsonl"

EngagementFile == "charlie posts_parsed BIG .csv"

\* generate_all.main has not started
SuiteStart(present) ==
    /\ files = present
    /\ suite_pc = 0
    /\ successful_runs = 0
    /\ reported = <<>>

\* nothing has run on these two files
PipelineVarsStart(lines, rows) ==
    /\ pc = "start"
    /\ jsonl = lines
    /\ csv = rows
    /\ personality_df = NoFrame
    /\ engagement_df = NoFrame
    /\ merged_df = NoFrame
    /\ outlier_posts = <<>>
    /\ error = ""
    /\ sheet = <<>>
    /\ run_pc = "idle"
    /\ done_ids = {}
    /\ cursor = 0
    /\ runs = 0
    /\ last_reply = "none"
    /\ AnalysisStart

\* the state before load_and_merge_data runs on these two files
PipelineStart(lines, rows) ==
    /\ PipelineVarsStart(lines, rows)
    /\ SuiteStart({PersonalityFile, EngagementFile})

\* join inputs: lines that do not parse, lines that are no object, and
\* annotations whose post_id is absent, a number or a string, repeated or not
JoinLines ==
    {MalformedLine, ArrayLine}
    \cup {PlainLine(pid) : pid \in {NoPid, IntPid(3), StrPid("3"), StrPid("4"), StrPid("9")}}

InitJoin ==
    \E lines \in SeqsOf(JoinLines, 0, MaxLines) :
        \E n \in 0..MaxRows : PipelineStart(lines, [i \in 1..n |-> PlainRow])

\* rate inputs: counts that are zero, positive, negative or not a number
RateRows ==
    {CsvRow(comments, likes, combined) :
        comments \in {Text, IntCell(0), IntCell(1)},
        likes \in {IntCell(0), IntCell(2)},
        combined \in {Text, IntCell(-1), IntCell(0), IntCell(1)}}

InitRates ==
    \E rows \in SeqsOf(RateRows, 0, MaxRows) :
        PipelineStart(<<PlainLine(StrPid("3"))>>, rows)

\* trait inputs: one post whose six composite inputs take scores inside and
\* outside the scale 1..5, alone or beside a post with a missing score
TraitScores == {1, 3, 5, 6}

\* an annotation that lacks the reliability score
PartialLine(pid) ==
    ObjectLine(pid, PlainTags, Big5Dict(3, 3),
               SelectSeq(PlainPartner, LAMBDA item : item.key # "reliability"),
               PlainFlags)

InitTraits ==
    \E o, it, rel, col, st, ld \in TraitScores :
        \E rest \in {<<>>, <<PartialLine(StrPid("4"))>>} :
            PipelineStart(<<ObjectLine(StrPid("3"), PlainTags, Big5Dict(o, 3),
                                       PartnerDict(it, rel, col, st, ld), PlainFlags)>>
                          \o rest,
                          <<PlainRow, PlainRow>>)

\* flag inputs: one or two posts, each risk flag true, false or not in the record
FlagChoices == {"absent", "false", "true"}

FlagItems(key, choice) ==
    IF choice = "absent" THEN <<>> ELSE <<Item(key, BoolCell(choice = "true"))>>

FlagLines(pid) ==
    {ObjectLine(pid, PlainTags, Big5Dict(3, 3), PlainPartner,
                FlagItems("self_promotion", sp)
                \o <<Item("humility", BoolCell(FALSE))>>
                \o FlagItems("controversial", co)
                \o FlagItems("aggressive_language", ag)) :
        sp \in FlagChoices, co \in FlagChoices, ag \in FlagChoices}

InitFlags ==
    \/ \E a \in FlagLines(StrPid("3")) : PipelineStart(<<a>>, <<PlainRow, PlainRow>>)
    \/ \E a \in FlagLines(StrPid("3")), b \in FlagLines(StrPid("4")) :
           PipelineStart(<<a, b>>, <<PlainRow, PlainRow>>)

\* outlier inputs: n posts "3" .. str(n + 2), every score 3 except that
\* openness and conscientiousness may be 5
OutlierLines(n) ==
    {[i \in 1..n |-> ObjectLine(StrPid(Str(i + 2)), PlainTags,
                                Big5Dict(o[i], c[i]), PlainPartner, PlainFlags)] :
        o \in [1..n -> {3, 5}], c \in [1..n -> {3, 5}]}

InitOutlier ==
    \E n \in {OutlierPosts - 1, OutlierPosts} :
        \E lines \in OutlierLines(n) :
            PipelineStart(lines, [i \in 1..n |-> PlainRow])

\* trend inputs: n posts "3" .. str(n + 2) whose openness cycles through
\* the scale, whose self_promotion flag is set on every period-th post, one
\* of which (an early or a late one) may lack the reliability score, written
\* in ascending order or
\* with the first post written last; the CSV lists the n posts with rising
\* engagement
TrendSizes == {4, 5, 6, MaxTrendPosts - 1, MaxTrendPosts}

TrendLine(i, step, shift, period, missing) ==
    ObjectLine(StrPid(Str(i + 2)), PlainTags,
               Big5Dict(1 + ((step * i + shift) % 5), 3),
               IF i = missing
               THEN SelectSeq(PlainPartner, LAMBDA item : item.key # "reliability")
               ELSE PlainPartner,
               FlagDict(i % period = 0, FALSE, FALSE, FALSE))

\* the sequence with its first `turn` elements moved to the end
Rotate(seq, turn) == SubSeq(seq, turn + 1, Len(seq)) \o SubSeq(seq, 1, turn)

InitTrend ==
    \E n \in TrendSizes, step \in {0, 1, 2}, shift \in {3}, period \in {2, 3} :
        \E missing \in {0, 2, n - 2}, turn \in {0, 1} :
            PipelineStart(Rotate([i \in 1..n |-> TrendLine(i, step, shift, period, missing)],
                                 turn),
                          [i \in 1..n |-> CsvRow(IntCell(0), IntCell(i), IntCell(i))])

\* a record for the predictor inputs: every trait scored `level`, openness
\* scored o (0: the key is absent)
RiskLine(i, level, o, promotes) ==
    ObjectLine(StrPid(Str(i + 2)), PlainTags,
               IF o = 0 THEN <<Item("conscientiousness", IntCell(level))>>
               ELSE Big5Dict(o, level),
               PartnerDict(level, level, level, level, level),
               FlagDict(promotes, FALSE, FALSE, FALSE))

\* tables of MaxRiskPosts - 1 or MaxRiskPosts posts, a third of them
\* self-promoting or none, with or without a post that lacks a score
InitRisk ==
    \E n \in {MaxRiskPosts - 1, MaxRiskPosts} :
        \E step \in {0, 1}, promoted \in {0, n \div 3}, missing \in {0, 1, n} :
            PipelineStart([i \in 1..n |->
                              LET level == 2 + ((step * i) % 3)
                              IN  RiskLine(i, level, IF i = missing THEN 0 ELSE level,
                                           i <= promoted)],
                          [i \in 1..n |-> CsvRow(IntCell(0), IntCell(i), IntCell(i))])

\* the states the process's own generator can start in
Entropy == {1, 2}

\* the scores of the clustering inputs: three posts low on both traits,
\* three posts high on both, three posts in between, and so on again
ArchetypeScores ==
    <<<<1, 1>>, <<5, 5>>, <<1, 5>>, <<1, 2>>, <<5, 4>>, <<5, 1>>, <<2, 1>>, <<4, 5>>,
      <<3, 3>>>>

\* three profiles, each shared by every third post: for three clusters
\* and more the clusters are these three groups
TiedScores ==
    <<<<1, 1>>, <<5, 5>>, <<1, 5>>, <<1, 1>>, <<5, 5>>, <<1, 5>>, <<1, 1>>, <<5, 5>>,
      <<1, 5>>>>

\* a record for the clustering inputs: strategic_thinking and leadership
\* scored as the table lists and the other traits 3, or strategic_thinking
\* absent
ArchetypeLineOf(table, i, scored) ==
    LET scores == table[((i - 1) % Len(table)) + 1]
        partner == PartnerDict(3, 3, 3, scores[1], scores[2])
    IN  ObjectLine(StrPid(Str(i + 2)), PlainTags,
                   <<Item("openness", IntCell(3))>>,
                   IF scored THEN partner
                   ELSE SelectSeq(partner, LAMBDA it : it.key # "strategic_thinking"),
                   PlainFlags)

ArchetypeLine(i, scored) == ArchetypeLineOf(ArchetypeScores, i, scored)

\* tables of MaxArchetypePosts posts and tables too small for max_clusters
\* clusters, with or without a post that lacks a score
InitCluster ==
    \E n \in 0..3 \cup {MaxArchetypePosts}, table \in {ArchetypeScores, TiedScores} :
        \E missing \in {0, 1} :
            PipelineStart([i \in 1..n |-> ArchetypeLineOf(table, i, i # missing)],
                          [i \in 1..n |-> CsvRow(IntCell(0), IntCell(i), IntCell(i))])

\* a fitted scaler of the twelve trait columns: ten posts whose scores add
\* up to 30 in every column, so mean_ is 3
LabelScaler ==
    [error |-> "", finite |-> TRUE, trait_cols |-> SubSeq(key_traits, 1, 12),
     n |-> 10, total |-> [f \in 1..12 |-> 30], D |-> <<>>,
     W |-> [f \in 1..12 |-> 100]]

\* the centre of the scaled space that inverse_transform takes to
\* tenths / 10 in every trait of `high` (to 5 in the trait `peak`) and to
\* rest / 10 in the others
LabelCentre(high, tenths, peak, rest) ==
    [f \in 1..12 |-> IntCell((IF f = peak THEN 50 ELSE IF f \in high THEN tenths
                                ELSE rest) - 30)]

\* label_archetypes is about to run on two centres: one with every trait
\* at 3 and one with up to MaxHighTraits traits at 4.0 or 4.5, one of them
\* or none at 5, and the other traits at 2.0, 2.5 or 3.9
InitLabel ==
    \E high \in {H \in SUBSET (1..12) : Cardinality(H) <= MaxHighTraits} :
        \E tenths \in {40, 45}, rest \in {20, 25, 39}, peak \in high \cup {0} :
            /\ pc = "loaded"
            /\ jsonl = <<>>
            /\ csv = <<>>
            /\ personality_df = NoFrame
            /\ engagement_df = NoFrame
            /\ merged_df = NoFrame
            /\ outlier_posts = <<>>
            /\ error = ""
            /\ sheet = <<>>
            /\ run_pc = "idle"
            /\ done_ids = {}
            /\ cursor = 0
            /\ runs = 0
            /\ last_reply = "none"
            /\ rolling_data = NoTrend
            /\ escalation_patterns = NoTrend
            /\ flag_trends = NoTrend
            /\ interval_trends = NoTrend
            /\ self_promotion_model = NoModel
            /\ SuiteStart({PersonalityFile, EngagementFile})
            /\ archetype_runs = <<>>
            /\ archetype_engine =
                  [Idle EXCEPT !.pc = "label", !.X = LabelScaler, !.k = max_clusters,
                               !.optimal_k = 2,
                               !.centers = <<LabelCentre({}, 30, 0, 30),
                                             LabelCentre(high, tenths, peak, rest)>>]

\* runs of generate_all on a directory that holds both input files, one of
\* them or none
InitSuite ==
    \E lines \in {<<>>, <<PlainLine(StrPid("3"))>>, <<PlainLine(StrPid("9"))>>,
                  <<PlainLine(StrPid("3")), PlainLine(StrPid("4"))>>} :
        \E n \in 0..MaxRows :
            \E present \in SUBSET {PersonalityFile, EngagementFile} :
                /\ PipelineVarsStart(lines, [i \in 1..n |-> PlainRow])
                /\ SuiteStart(present)

\* the replies the model endpoint can give for one post
Replies ==
    {ExceptionReply, MalformedLine, ArrayLine}
    \cup {ObjectLine(NoPid, PlainTags, Big5Dict(o, 3), PlainPartner, PlainFlags) :
            o \in {3, 7}}

\* the ingestion script's world: no results.jsonl yet, a spreadsheet with
\* two header rows and up to MaxSheetPosts cells below them, and the
\* engagement CSV of those rows
Init ==
    \E n \in 1..MaxSheetPosts :
        \E cells \in [1..n -> BOOLEAN] :
            /\ pc = "start"
            /\ jsonl = <<>>
            /\ csv = [i \in 1..n |-> PlainRow]
            /\ personality_df = NoFrame
            /\ engagement_df = NoFrame
            /\ merged_df = NoFrame
            /\ outlier_posts = <<>>
            /\ error = ""
            /\ sheet = <<TRUE, TRUE>> \o cells
            /\ run_pc = "idle"
            /\ done_ids = {}
            /\ cursor = 0
            /\ runs = 0
            /\ last_reply = "none"
            /\ AnalysisStart
            /\ SuiteStart({PersonalityFile, EngagementFile})

----------------------------------------------------------------------------
(* load_and_merge_data, step by step, and the outlier analysis of          *)
(* generate_consistency_analysis                                           *)

LoadPersonalityData ==
    /\ pc = "start"
    /\ run_pc # "loop"
    /\ LET got == IF PersonalityFile \in files THEN LoadPersonality(jsonl)
                  ELSE [error |-> "FileNotFoundError", df |-> NoFrame]
       IN  /\ personality_df' = got.df
           /\ error' = got.error
           /\ pc' = IF got.error = "" THEN "personality" ELSE "load_failed"
    /\ UNCHANGED <<jsonl, csv, engagement_df, merged_df, outlier_posts>>
    /\ UNCHANGED ingest_vars
    /\ UNCHANGED analysis_vars

LoadEngagementData ==
    /\ pc = "personality"
    /\ IF EngagementFile \in files
       THEN /\ engagement_df' = LoadEngagement(csv)
            /\ pc' = "engagement"
            /\ error' = error
       ELSE /\ engagement_df' = engagement_df
            /\ pc' = "load_failed"
            /\ error' = "FileNotFoundError"
    /\ UNCHANGED <<jsonl, csv, personality_df, merged_df, outlier_posts>>
    /\ UNCHANGED ingest_vars
    /\ UNCHANGED analysis_vars

MergeData ==
    /\ pc = "engagement"
    /\ merged_df' = MergeInner(personality_df, engagement_df)
    /\ pc' = "merged"
    /\ UNCHANGED <<jsonl, csv, personality_df, engagement_df, outlier_posts, error>>
    /\ UNCHANGED ingest_vars
    /\ UNCHANGED analysis_vars

CompositeScores ==
    /\ pc = "merged"
    /\ LET got == CreateCompositeScores(merged_df)
       IN  /\ merged_df' = got.df
           /\ error' = got.error
           /\ pc' = IF got.error = "" THEN "loaded" ELSE "composite_failed"
    /\ UNCHANGED <<jsonl, csv, personality_df, engagement_df, outlier_posts>>
    /\ UNCHANGED ingest_vars
    /\ UNCHANGED analysis_vars

OutlierAnalysis ==
    /\ pc = "loaded"
    /\ outlier_posts' = DetectOutlierPosts(merged_df)
    /\ pc' = "analysed"
    /\ UNCHANGED <<jsonl, csv, personality_df, engagement_df, merged_df, error>>
    /\ UNCHANGED ingest_vars
    /\ UNCHANGED analysis_vars

\* the head of generate_evolution_tracking, on the table load_and_merge_data
\* returned: post_id_numeric, the sort and the rolling means
GenerateEvolutionTracking ==
    /\ pc \in {"loaded", "analysed"}
    /\ ~ rolling_data.done
    /\ LET got == AddPostIdNumeric(merged_df)
       IN  /\ merged_df' = got.df
           /\ rolling_data' = IF got.error # "" THEN TrendError(got.error)
                              ELSE EvolutionRollingData(got.df)
    /\ UNCHANGED <<pc, jsonl, csv, personality_df, engagement_df, outlier_posts, error>>
    /\ UNCHANGED ingest_vars
    /\ UNCHANGED <<escalation_patterns, flag_trends, interval_trends>>
    /\ UNCHANGED <<suite_vars, risk_vars, cluster_vars>>

\* detect_flag_escalation_patterns(df)
DetectEscalation ==
    /\ pc \in {"loaded", "analysed"}
    /\ ~ escalation_patterns.done
    /\ LET got == AddPostIdNumeric(merged_df)
       IN  /\ merged_df' = got.df
           /\ escalation_patterns' = IF got.error # "" THEN TrendError(got.error)
                                     ELSE DetectFlagEscalationPatterns(got.df)
    /\ UNCHANGED <<pc, jsonl, csv, personality_df, engagement_df, outlier_posts, error>>
    /\ UNCHANGED ingest_vars
    /\ UNCHANGED <<rolling_data, flag_trends, interval_trends>>
    /\ UNCHANGED <<suite_vars, risk_vars, cluster_vars>>

\* analyze_flag_trends(df)
FlagTrends ==
    /\ pc \in {"loaded", "analysed"}
    /\ ~ flag_trends.done
    /\ LET got == AddPostIdNumeric(merged_df)
       IN  /\ merged_df' = got.df
           /\ flag_trends' = IF got.error # "" THEN TrendError(got.error)
                             ELSE AnalyzeFlagTrends(got.df)
    /\ UNCHANGED <<pc, jsonl, csv, personality_df, engagement_df, outlier_posts, error>>
    /\ UNCHANGED ingest_vars
    /\ UNCHANGED <<rolling_data, escalation_patterns, interval_trends>>
    /\ UNCHANGED <<suite_vars, risk_vars, cluster_vars>>

\* the interval sizes analyze_flag_interval_trends is called with: the one
\* generate_behavioral_flags passes and a small one
IntervalSizes == {interval_size, MinIntervalSize}

\* analyze_flag_interval_trends(df, interval_size), which
\* generate_behavioral_flags calls after analyze_flag_trends
FlagIntervalTrends ==
    /\ pc \in {"loaded", "analysed"}
    /\ flag_trends.done
    /\ ~ interval_trends.done
    /\ \E size \in IntervalSizes :
          LET got == AddPostIdNumeric(merged_df)
          IN  /\ merged_df' = got.df
              /\ interval_trends' = IF got.error # "" THEN TrendError(got.error)
                                    ELSE AnalyzeFlagIntervalTrends(got.df, size)
    /\ UNCHANGED <<pc, jsonl, csv, personality_df, engagement_df, outlier_posts, error>>
    /\ UNCHANGED ingest_vars
    /\ UNCHANGED <<rolling_data, escalation_patterns, flag_trends>>
    /\ UNCHANGED <<suite_vars, risk_vars, cluster_vars>>

\* build_self_promotion_predictor(df) of generate_risk_assessment
BuildPredictor ==
    /\ pc = "loaded"
    /\ ~ self_promotion_model.done
    /\ LET y == Target(merged_df)
           splits == IF "flag_self_promotion" \notin Range(merged_df.columns)
                        \/ ~ IntConvertible(merged_df, "flag_self_promotion")
                        \/ SplitRaises(y)
                     THEN {{}} ELSE TestSets(y)
       IN  \E test \in splits :
             self_promotion_model' = BuildSelfPromotionPredictor(merged_df, test)
    /\ UNCHANGED <<jsonl, pipeline_vars, ingest_vars>>
    /\ UNCHANGED <<trend_vars, suite_vars, cluster_vars>>

\* the engine's run ends with this result
EngineReturned(result) ==
    /\ archetype_runs' = Append(archetype_runs,
                                [entropy |-> archetype_engine.entropy, result |-> result,
                                 profiles |-> <<>>])
    /\ archetype_engine' = Idle

\* generate_content_archetypes calls prepare_clustering_data, in a process
\* whose generator is in some state; two runs are followed, of processes
\* whose generators start in different states
PrepareData ==
    /\ pc = "loaded"
    /\ archetype_engine.pc = "idle"
    /\ Len(archetype_runs) < 2
    /\ \E entropy \in Entropy \ {archetype_runs[r].entropy : r \in DOMAIN archetype_runs} :
          \E X \in {PrepareClusteringData(merged_df)} :
             IF X.error # ""
             THEN /\ archetype_runs' = Append(archetype_runs,
                                              [entropy |-> entropy,
                                               result |-> ArchetypeError(X.error),
                                               profiles |-> <<>>])
                  /\ UNCHANGED archetype_engine
             ELSE /\ archetype_engine' = [Idle EXCEPT !.pc = "find", !.entropy = entropy,
                                                      !.global = entropy, !.X = X, !.k = 2]
                  /\ UNCHANGED archetype_runs
    /\ UNCHANGED <<jsonl, pipeline_vars, ingest_vars>>
    /\ UNCHANGED <<trend_vars, suite_vars, risk_vars>>

\* one turn of the loop of find_optimal_clusters: the estimator is fitted
\* for the next k and its silhouette taken
FindOptimalClustersTurn ==
    /\ archetype_engine.pc = "find"
    /\ \E kmeans \in {FitPredict(archetype_engine.X, archetype_engine.k,
                                  archetype_engine.global)} :
          IF kmeans.error # "" \/ SilhouetteRaises(archetype_engine.X, kmeans.labels)
          THEN EngineReturned(ArchetypeError("ValueError"))
          ELSE \E score \in {SilhouetteScore(archetype_engine.X, kmeans.labels)} :
                  /\ archetype_engine' = FindOptimalClusters(archetype_engine, kmeans, score)
                  /\ UNCHANGED archetype_runs
    /\ UNCHANGED <<jsonl, pipeline_vars, ingest_vars>>
    /\ UNCHANGED <<trend_vars, suite_vars, risk_vars>>

\* generate_content_archetypes calls perform_clustering with optimal_k
PerformClusteringStep ==
    /\ archetype_engine.pc = "cluster"
    /\ \E kmeans \in {PerformClustering(archetype_engine.X, archetype_engine.optimal_k,
                                         archetype_engine.global)} :
          IF kmeans.error # ""
          THEN EngineReturned(ArchetypeError(kmeans.error))
          ELSE /\ archetype_engine' = [archetype_engine EXCEPT
                                          !.pc = "label", !.global = kmeans.global,
                                          !.labels = kmeans.labels,
                                          !.centers = kmeans.centers]
               /\ UNCHANGED archetype_runs
    /\ UNCHANGED <<jsonl, pipeline_vars, ingest_vars>>
    /\ UNCHANGED <<trend_vars, suite_vars, risk_vars>>

\* generate_content_archetypes calls label_archetypes; the call of
\* perform_dimensionality_reduction before it takes no part in the labels
LabelArchetypesStep ==
    /\ archetype_engine.pc = "label"
    /\ archetype_runs' = Append(archetype_runs,
                                [entropy |-> archetype_engine.entropy,
                                 result |-> Archetypes(archetype_engine),
                                 profiles |-> TraitProfiles(archetype_engine.centers,
                                                            archetype_engine.X)])
    /\ archetype_engine' = Idle
    /\ UNCHANGED <<jsonl, pipeline_vars, ingest_vars>>
    /\ UNCHANGED <<trend_vars, suite_vars, risk_vars>>

\* load_and_merge_data and the clustering engine
ClusterNext ==
    \/ LoadPersonalityData
    \/ LoadEngagementData
    \/ MergeData
    \/ CompositeScores
    \/ PrepareData
    \/ FindOptimalClustersTurn
    \/ PerformClusteringStep
    \/ LabelArchetypesStep

\* label_archetypes alone
LabelNext == LabelArchetypesStep

\* load_and_merge_data and build_self_promotion_predictor
RiskNext ==
    \/ LoadPersonalityData
    \/ LoadEngagementData
    \/ MergeData
    \/ CompositeScores
    \/ BuildPredictor

\* load_and_merge_data and the four trend analyzers
TrendNext ==
    \/ LoadPersonalityData
    \/ LoadEngagementData
    \/ MergeData
    \/ CompositeScores
    \/ GenerateEvolutionTracking
    \/ DetectEscalation
    \/ FlagTrends
    \/ FlagIntervalTrends

----------------------------------------------------------------------------
(* generate_all.py *)

\* load_and_merge_data as one call: [error, df]
LoadAndMergeData(lines, rows, present) ==
    IF PersonalityFile \notin present
    THEN [error |-> "FileNotFoundError", df |-> NoFrame]
    ELSE LET personality == LoadPersonality(lines)
         IN  IF personality.error # "" THEN [error |-> personality.error, df |-> NoFrame]
             ELSE IF EngagementFile \notin present
             THEN [error |-> "FileNotFoundError", df |-> NoFrame]
             ELSE LET got == CreateCompositeScores(
                                 MergeInner(personality.df, LoadEngagement(rows)))
                  IN  [error |-> got.error,
                       df |-> IF got.error = "" THEN got.df ELSE NoFrame]

\* analyses_to_run of main(), each with the page its generate_ function writes
analyses_to_run ==
    <<[module |-> "data_loader", page |-> ""],
      [module |-> "landscape_overview", page |-> "landscape_overview.html"],
      [module |-> "personality_profile", page |-> "personality_profile.html"],
      [module |-> "core_analyses.consistency_analysis", page |-> "consistency_analysis.html"],
      [module |-> "core_analyses.behavioral_flags", page |-> "behavioral_flags_analysis.html"],
      [module |-> "core_analyses.content_trait_nexus", page |-> "content_trait_nexus.html"],
      [module |-> "advanced_analytics.content_archetypes", page |-> "content_archetypes.html"],
      [module |-> "advanced_analytics.risk_assessment", page |-> "risk_assessment.html"],
      [module |-> "advanced_analytics.partnership_intelligence",
       page |-> "partnership_intelligence.html"],
      [module |-> "advanced_analytics.evolution_tracking", page |-> "evolution_tracking.html"]>>

\* the modules of the list that the charts directory holds
Importable ==
    {analyses_to_run[k].module : k \in DOMAIN analyses_to_run}
    \ {"advanced_analytics.content_archetypes"}

\* the modules of the list that define their generate_ function
WithGenerate == Importable \ {"data_loader"}

IndexPage == "index.html"

\* main() starts
StartSuite ==
    /\ suite_pc = 0
    /\ pc = "start"
    /\ run_pc # "loop"
    /\ suite_pc' = 1
    /\ UNCHANGED <<files, successful_runs, reported>>
    /\ UNCHANGED <<jsonl, pipeline_vars, ingest_vars, trend_vars, risk_vars, cluster_vars>>

\* one run_analysis call of main(): the import, the generate_ function with
\* its load_and_merge_data, and the except clause that prints the error and
\* returns False
RunAnalysis ==
    /\ suite_pc \in DOMAIN analyses_to_run
    /\ LET a == analyses_to_run[suite_pc]
           got == LoadAndMergeData(jsonl, csv, files)
           failed(e) == /\ reported' = Append(reported, [module |-> a.module, error |-> e])
                        /\ UNCHANGED <<files, successful_runs>>
       IN  IF a.module \notin Importable
           THEN failed("ModuleNotFoundError") /\ UNCHANGED <<merged_df, error>>
           ELSE IF a.module \notin WithGenerate
           THEN /\ successful_runs' = successful_runs + 1
                /\ UNCHANGED <<files, reported, merged_df, error>>
           ELSE IF got.error # ""
           THEN failed(got.error) /\ merged_df' = NoFrame /\ error' = got.error
           ELSE /\ merged_df' = got.df
                /\ error' = ""
                /\ \E raised \in BOOLEAN :
                     IF raised THEN failed("Exception")
                     ELSE /\ files' = files \cup {a.page}
                          /\ successful_runs' = successful_runs + 1
                          /\ reported' = reported
    /\ suite_pc' = suite_pc + 1
    /\ UNCHANGED <<pc, jsonl, csv, personality_df, engagement_df, outlier_posts>>
    /\ UNCHANGED <<ingest_vars, trend_vars, risk_vars, cluster_vars>>

\* the end of main(): the summary and create_index_page
CreateIndexPage ==
    /\ suite_pc = Len(analyses_to_run) + 1
    /\ files' = files \cup {IndexPage}
    /\ suite_pc' = suite_pc + 1
    /\ UNCHANGED <<successful_runs, reported>>
    /\ UNCHANGED <<jsonl, pipeline_vars, ingest_vars, trend_vars, risk_vars, cluster_vars>>

SuiteNext ==
    \/ StartSuite
    \/ RunAnalysis
    \/ CreateIndexPage

PipelineNext ==
    \/ LoadPersonalityData
    \/ LoadEngagementData
    \/ MergeData
    \/ CompositeScores
    \/ OutlierAnalysis

----------------------------------------------------------------------------
(* main() of process_posts.py *)

\* main() up to the loop: load_posts, load_done_ids, the connection test
StartRun ==
    /\ pc = "start"
    /\ run_pc # "loop"
    /\ runs' = IF runs < MaxRuns THEN runs + 1 ELSE runs
    /\ \E connected \in BOOLEAN :
         LET posts == LoadPosts(sheet)
             got == LoadDoneIds(jsonl, {})
         IN  /\ done_ids' = IF posts = <<>> THEN {} ELSE got.done
             /\ run_pc' = IF posts = <<>> THEN "exited"
                          ELSE IF got.error # "" THEN "crashed"
                          ELSE IF ~ connected THEN "exited"
                          ELSE "loop"
    /\ cursor' = 1
    /\ last_reply' = "none"
    /\ UNCHANGED <<jsonl, sheet>>
    /\ UNCHANGED pipeline_vars
    /\ UNCHANGED analysis_vars

\* one turn of the loop over the posts: a post in done_ids is skipped; a
\* call that raises and a reply that is no JSON are reported and the loop
\* goes on; obj["post_id"] = excel_row raises TypeError on a reply that is
\* JSON but no object; any other reply is written
ProcessPost ==
    /\ run_pc = "loop"
    /\ cursor <= Len(LoadPosts(sheet))
    /\ LET excel_row == ExcelRow(LoadPosts(sheet)[cursor])
       IN  IF StrPid(excel_row) \in done_ids
           THEN /\ jsonl' = jsonl
                /\ run_pc' = run_pc
                /\ cursor' = cursor + 1
                /\ last_reply' = "skipped"
           ELSE \E reply \in Replies :
                  /\ last_reply' = reply.kind
                  /\ IF reply.kind \in {"exception", "malformed"}
                     THEN /\ jsonl' = jsonl
                          /\ run_pc' = run_pc
                          /\ cursor' = cursor + 1
                     ELSE IF reply.kind # "object"
                     THEN /\ jsonl' = jsonl
                          /\ run_pc' = "crashed"
                          /\ cursor' = cursor
                     ELSE /\ jsonl' = AppendRecord(jsonl, OutputLine(reply, excel_row))
                          /\ run_pc' = run_pc
                          /\ cursor' = cursor + 1
    /\ UNCHANGED <<sheet, done_ids, runs>>
    /\ UNCHANGED pipeline_vars
    /\ UNCHANGED analysis_vars

\* the loop is over: main() prints its summary and returns
FinishRun ==
    /\ run_pc = "loop"
    /\ cursor > Len(LoadPosts(sheet))
    /\ run_pc' = "finished"
    /\ UNCHANGED <<jsonl, sheet, done_ids, cursor, runs, last_reply>>
    /\ UNCHANGED pipeline_vars
    /\ UNCHANGED analysis_vars

\* the run is stopped from outside, or the machine goes down, between two
\* turns of the loop; a line that was written but not flushed is lost whole
KillRun ==
    /\ run_pc = "loop"
    /\ run_pc' = "killed"
    /\ UNCHANGED <<jsonl, sheet, done_ids, cursor, runs, last_reply>>
    /\ UNCHANGED pipeline_vars
    /\ UNCHANGED analysis_vars

Next ==
    \/ StartRun
    \/ ProcessPost
    \/ FinishRun
    \/ KillRun
    \/ LoadPersonalityData
    \/ LoadEngagementData
    \/ MergeData
    \/ CompositeScores
    \/ OutlierAnalysis
    \/ GenerateEvolutionTracking
    \/ DetectEscalation
    \/ FlagTrends
    \/ FlagIntervalTrends

Spec == Init /\ [][Next]_vars

\* the ingestion script alone
IngestNext ==
    \/ StartRun
    \/ ProcessPost
    \/ FinishRun
    \/ KillRun

\* a turn of the loop at the k-th post whose reply json.loads accepts
ValidReply(k) ==
    ProcessPost /\ cursor = k /\ last_reply' \in {"object", "array"}

\* the script is run again and again and the server is eventually there
\* when it is; the runs are not all stopped before the same post; and the
\* call for every post eventually returns valid JSON
SpecLive ==
    /\ Init
    /\ [][IngestNext]_vars
    /\ WF_vars(StartRun)
    /\ SF_vars(StartRun /\ run_pc' = "loop")
    /\ WF_vars(FinishRun)
    /\ \A k \in 1..MaxSheetPosts : SF_vars(ProcessPost /\ cursor = k)
    /\ \A k \in 1..MaxSheetPosts : SF_vars(ValidReply(k))

SpecJoin == InitJoin /\ [][PipelineNext]_vars

SpecRates == InitRates /\ [][PipelineNext]_vars

SpecTraits == InitTraits /\ [][PipelineNext]_vars

SpecFlags == InitFlags /\ [][PipelineNext]_vars

SpecOutlier == InitOutlier /\ [][PipelineNext]_vars

SpecTrend == InitTrend /\ [][TrendNext]_vars

SpecSuite == InitSuite /\ [][SuiteNext]_vars

SpecRisk == InitRisk /\ [][RiskNext]_vars

SpecCluster == InitCluster /\ [][ClusterNext]_vars

SpecLabel == InitLabel /\ [][LabelNext]_vars

----------------------------------------------------------------------------
(* Properties *)

\* load_personality_data has returned or raised
PersonalityDone == pc # "start"

\* load_engagement_data has returned
EngagementDone == pc \in {"engagement", "merged", "loaded", "analysed", "composite_failed"}

\* load_and_merge_data has returned the merged table
Returned == pc \in {"loaded", "analysed"}

PostIds(df) == {df.rows[i].post_id : i \in DOMAIN df.rows}

ParsesAsJson(line) == line.kind \in {"array", "object"}

(* C1: the merged table holds exactly the posts whose post_id occurs in the
   personality table and in the engagement table, and no post twice. *)
C1_MergedIsTheCommonPosts ==
    Returned =>
        /\ PostIds(merged_df) = PostIds(personality_df) \cap PostIds(engagement_df)
        /\ \A i, j \in DOMAIN merged_df.rows :
               merged_df.rows[i].post_id = merged_df.rows[j].post_id => i = j

(* C2: the merged table has at most as many rows as the smaller of the
   personality table and the engagement table. *)
C2_MergedAtMostMinRows ==
    Returned =>
        Len(merged_df.rows) <= Min(Len(personality_df.rows), Len(engagement_df.rows))

(* C3: load_personality_data never fails on the content of a line: it
   returns one row per line that parses as JSON and skips the others. *)
C3_OneRowPerParsedLine ==
    PersonalityDone =>
        /\ pc # "load_failed"
        /\ Len(personality_df.rows) = Len(SelectSeq(jsonl, ParsesAsJson))

(* C4: in a row whose combined is 0, comment_rate and like_rate are NaN or
   0, never an infinity. *)
C4_RatesNeverInfinite ==
    EngagementDone =>
        \A i \in DOMAIN engagement_df.rows :
            LET v == engagement_df.rows[i].v
            IN  v["combined"].n = 0 =>
                    /\ v["comment_rate"].k = "nan" \/ EqualsInt(v["comment_rate"], 0)
                    /\ v["like_rate"].k = "nan" \/ EqualsInt(v["like_rate"], 0)

\* the largest combined of the engagement table, for a table with rows
MaxCombined ==
    CHOOSE m \in {engagement_df.rows[i].v["combined"].n : i \in DOMAIN engagement_df.rows} :
        \A i \in DOMAIN engagement_df.rows : engagement_df.rows[i].v["combined"].n <= m

\* rate is the float combined / max * 100
IsRateOf(rate, combined, max) ==
    IF max = 0
    THEN IF combined = 0 THEN rate.k = "nan"
         ELSE rate.k = "inf" /\ rate.n = (IF combined > 0 THEN 1 ELSE -1)
    ELSE IsFinite(rate) /\ rate.n * max = 100 * combined * rate.d

RowsAtHundred ==
    {i \in DOMAIN engagement_df.rows :
        EqualsInt(engagement_df.rows[i].v["engagement_rate"], 100)}

RowsAtMax ==
    {i \in DOMAIN engagement_df.rows :
        engagement_df.rows[i].v["combined"].n = MaxCombined}

(* C5 as stated: engagement_rate is combined / max(combined) * 100 in every
   row and exactly one row has engagement_rate 100. *)
C5_ExactlyOneRowAtHundred ==
    EngagementDone =>
        /\ \A i \in DOMAIN engagement_df.rows :
               IsRateOf(engagement_df.rows[i].v["engagement_rate"],
                        engagement_df.rows[i].v["combined"].n, MaxCombined)
        /\ Cardinality(RowsAtHundred) = 1

(* C5 as amended: engagement_rate is combined / max(combined) * 100 in every
   row; when the maximum is not 0 the rows with engagement_rate 100 are
   exactly the rows whose combined is the maximum, at least one and possibly
   several; when the table is empty or the maximum is 0 no row has 100. *)
C5_RowsAtHundredAreTheMaxima ==
    EngagementDone =>
        /\ \A i \in DOMAIN engagement_df.rows :
               IsRateOf(engagement_df.rows[i].v["engagement_rate"],
                        engagement_df.rows[i].v["combined"].n, MaxCombined)
        /\ IF engagement_df.rows # <<>> /\ MaxCombined # 0
           THEN RowsAtHundred = RowsAtMax /\ RowsAtHundred # {}
           ELSE RowsAtHundred = {}

\* two rows share the maximum and both have engagement_rate 100
C5_Witness ==
    /\ EngagementDone
    /\ Cardinality(RowsAtHundred) = 2
    /\ MaxCombined > 0

\* the columns of the merged table that hold trait scores
ScoreColumns(df) ==
    {c \in Range(df.columns) : StartsWith(c, "big5_") \/ StartsWith(c, "partner_")}

\* every trait score of the row is an integer of the scale 1..5
ScoresInScale(df, row) ==
    \A c \in ScoreColumns(df) : row.v[c].k = "int" /\ row.v[c].n \in 1..5

\* the finite float lies in [1, 5]
InScale(x) == IsFinite(x) /\ x.d <= x.n /\ x.n <= 5 * x.d

(* C6: for a post whose trait scores all lie in 1..5,
   partnership_compatibility and thought_leadership lie in [1,5] and
   brand_consistency + trait_volatility is exactly 5. *)
C6_CompositesInScale ==
    Returned =>
        \A i \in DOMAIN merged_df.rows :
            LET row == merged_df.rows[i]
                bc == row.v["brand_consistency"]
                tv == row.v["trait_volatility"]
            IN  ScoresInScale(merged_df, row) =>
                    /\ InScale(row.v["partnership_compatibility"])
                    /\ InScale(row.v["thought_leadership"])
                    /\ IsFinite(bc) /\ IsFinite(tv)
                    /\ bc.n * tv.d + tv.n * bc.d = 5 * bc.d * tv.d

\* a post in scale whose partnership_compatibility is 5, whose
\* thought_leadership is 1 and whose scores are dispersed
C6_Witness ==
    /\ Returned
    /\ \E i \in DOMAIN merged_df.rows :
           LET row == merged_df.rows[i]
           IN  /\ ScoresInScale(merged_df, row)
               /\ EqualsInt(row.v["partnership_compatibility"], 5)
               /\ EqualsInt(row.v["thought_leadership"], 1)
               /\ row.v["trait_volatility"].n > 0

\* 1 for a True flag, 0 for a False one and for a column the table lacks
FlagCount(df, row, flag) ==
    IF flag \in Range(df.columns) THEN (IF row.v[flag].n = 1 THEN 1 ELSE 0) ELSE 0

(* C7: professional_risk is 2 * controversial + 2 * aggressive_language +
   self_promotion with each flag counted 0 or 1, an integer in 0..5; a flag
   whose column the table lacks counts 0. *)
C7_ProfessionalRiskIsWeightedSum ==
    Returned =>
        \A i \in DOMAIN merged_df.rows :
            LET row == merged_df.rows[i]
                risk == row.v["professional_risk"]
            IN  /\ risk.k = "int"
                /\ risk.n \in 0..5
                /\ risk.n = 2 * FlagCount(merged_df, row, "flag_controversial")
                            + 2 * FlagCount(merged_df, row, "flag_aggressive_language")
                            + FlagCount(merged_df, row, "flag_self_promotion")

\* a table without the controversial column in which a post with the two
\* other flags set has risk 3, and a post with neither has risk 0
C7_Witness ==
    /\ Returned
    /\ "flag_controversial" \notin Range(merged_df.columns)
    /\ {"flag_aggressive_language", "flag_self_promotion"} \subseteq Range(merged_df.columns)
    /\ \E i, j \in DOMAIN merged_df.rows :
           /\ merged_df.rows[i].v["flag_aggressive_language"].n = 1
           /\ merged_df.rows[i].v["flag_self_promotion"].n = 1
           /\ merged_df.rows[i].v["professional_risk"].n = 3
           /\ merged_df.rows[j].v["professional_risk"].n = 0

\* the trait scores of a line of results.jsonl
LineScores(line) ==
    {line.big_five[i].val.n : i \in DOMAIN line.big_five}
    \cup {line.partner_traits[i].val.n : i \in DOMAIN line.partner_traits}

(* C8: a post record with a trait score outside 1..5 is rejected at
   ingestion: the script writes no such line to results.jsonl and the
   record loader makes no such row. *)
C8_OutOfScaleRejected ==
    /\ \A l \in DOMAIN jsonl : LineScores(jsonl[l]) \subseteq 1..5
    /\ PersonalityDone =>
           \A i \in DOMAIN personality_df.rows :
               \A c \in ScoreColumns(personality_df) :
                   LET x == personality_df.rows[i].v[c]
                   IN  x.k = "nan" \/ x.n \in 1..5

\* the trait columns in which the row's |z| exceeds 2.0
DeviantTraits(df, row) ==
    {c \in Range(TraitCols(df)) :
        LET st == ColumnStats(df, c)
            x == row.v[c].n
        IN  /\ st.cnt >= 2
            /\ ScaledVar(st) > 0
            /\ (st.cnt * x - st.sum) * (st.cnt * x - st.sum) * (st.cnt - 1)
                   > 4 * st.cnt * ScaledVar(st)}

\* the records detect_outlier_posts returned for this post_id
RecordsOf(post_id) ==
    {i \in DOMAIN outlier_posts : outlier_posts[i].post_id = post_id}

(* C9: detect_outlier_posts returns a record for a post exactly when some
   trait column has |z| > 2.0 for it; the record's outlier_traits are exactly
   the traits whose |z| exceeds 2.0, its max_deviation is the largest |z| and
   its avg_deviation the mean |z|. *)
C9_OutlierRecordsNameTheDeviantTraits ==
    pc = "analysed" =>
        \A i \in DOMAIN merged_df.rows :
            LET row == merged_df.rows[i]
                devs == PostDeviations(merged_df, row, TraitCols(merged_df))
            IN  /\ (RecordsOf(row.post_id) # {}) = (DeviantTraits(merged_df, row) # {})
                /\ \A r \in RecordsOf(row.post_id) :
                       /\ Range(outlier_posts[r].outlier_traits)
                              = DeviantTraits(merged_df, row)
                       /\ \A d \in DOMAIN devs :
                              ~ DevGreater(devs[d], outlier_posts[r].max_deviation)
                       /\ \E d \in DOMAIN devs : devs[d] = outlier_posts[r].max_deviation
                       /\ outlier_posts[r].avg_deviation = MeanDev(devs)

\* post p is the only post with a score other than 3, and only in column t
OnlyDeviation(df, p, t) ==
    \A i \in DOMAIN df.rows : \A c \in ScoreColumns(df) :
        (df.rows[i].v[c].n # 3) = (i = p /\ c = t)

(* C10: when every post has 3 on every trait except one post P that differs
   on one trait T, detect_outlier_posts reports P with outlier_traits naming
   T and reports no other post.  Stated for tables of at least six posts,
   the fewest for which the |z| of P exceeds 2.0. *)
C10_SingleDeviationIsReported ==
    (pc = "analysed" /\ Len(merged_df.rows) >= 6) =>
        \A p \in DOMAIN merged_df.rows : \A t \in ScoreColumns(merged_df) :
            OnlyDeviation(merged_df, p, t) =>
                /\ Len(outlier_posts) = 1
                /\ outlier_posts[1].post_id = merged_df.rows[p].post_id
                /\ outlier_posts[1].outlier_traits = <<t>>

----------------------------------------------------------------------------
(* The trend analyzers *)

\* the row of the merged table at chronological position i, oldest first:
\* the post with the i-th largest identifier
ChronoRow(i) ==
    CHOOSE r \in Range(merged_df.rows) :
        Cardinality({q \in DOMAIN merged_df.rows :
                        merged_df.rows[q].v["post_id_numeric"].n
                            > r.v["post_id_numeric"].n}) = i - 1

\* the rows of the merged table in chronological order
ChronoRows == [i \in DOMAIN merged_df.rows |-> ChronoRow(i)]

\* the observations of a column of these rows
Observations(rows, c) == [i \in DOMAIN rows |-> rows[i].v[c]]

\* the last min(i, 20) observations ending at position i
LastObservations(obs, i) == SubSeq(obs, IF i > 20 THEN i - 19 ELSE 1, i)

\* the value a Series holds at position i: NaN when it holds none
ValueAt(values, i) ==
    IF \E e \in Range(values) : e.pos = i
    THEN (CHOOSE e \in Range(values) : e.pos = i).value
    ELSE NaN

SameNumber(a, b) == IsFinite(a) /\ IsFinite(b) /\ a.n * b.d = b.n * a.d

\* the returned results that hold rolling means
Rolled ==
    {r \in {rolling_data, escalation_patterns, flag_trends} : r.done /\ r.error = ""}

\* C11 as stated: a rolling mean has no value at the first 4 chronological
\* positions, and from the 5th position on its value at position i is the
\* mean of the last min(i, 20) observations ending at i.
C11_RollingMeanOfLastObservations ==
    \A r \in Rolled :
        LET rows == ChronoRows
        IN  \A s \in Range(r.series) :
        LET obs == Observations(rows, s.column)
        IN  \A i \in DOMAIN obs :
              LET last == LastObservations(obs, i)
                  total == CellSum(last)
              IN  IF i < 5 THEN ValueAt(s.values, i) = NaN
                  ELSE /\ \A j \in DOMAIN last : IsFinite(last[j])
                       /\ SameNumber(ValueAt(s.values, i),
                                     Float(total.n, total.d * Len(last)))

\* C11 as amended: a rolling mean has no value at the first 4 chronological
\* positions; at a later position i it has a value exactly when at least 5
\* of the last min(i, 20) observations ending at i are present, and the
\* value is the mean of the present ones; a position without a value is
\* left out or NaN, never filled with zero.
C11_RollingMeanOfPresentObservations ==
    \A r \in Rolled :
        LET rows == ChronoRows
        IN  \A s \in Range(r.series) :
        LET obs == Observations(rows, s.column)
        IN  \A i \in DOMAIN obs :
              LET present == SelectSeq(LastObservations(obs, i), LAMBDA c : IsFinite(c))
                  total == CellSum(present)
              IN  /\ i < 5 => ValueAt(s.values, i) = NaN
                  /\ Len(present) < 5 => ValueAt(s.values, i) = NaN
                  /\ Len(present) >= 5 =>
                        SameNumber(ValueAt(s.values, i),
                                   Float(total.n, total.d * Len(present)))

\* the three analyzers have rolled over a table of more than 20 posts, one
\* of which lacks a score, so that the window has dropped its oldest post
\* and a position past the 4th has no value
C11_Witness ==
    /\ \A r \in {rolling_data, escalation_patterns, flag_trends} : r.done /\ r.error = ""
    /\ Len(merged_df.rows) > 20
    /\ \E s \in Range(rolling_data.series) :
          /\ s.column = "partner_reliability"
          /\ ValueAt(s.values, 5) = NaN
          /\ ValueAt(s.values, 21) # NaN
    /\ \E s \in Range(flag_trends.series) : ValueAt(s.values, 21) # NaN

\* the trend results that returned
Returns == {r \in {rolling_data, escalation_patterns, flag_trends, interval_trends} :
               r.done /\ r.error = ""}

ArrivalOrder ==
    LET records == SelectSeq(jsonl, LAMBDA l : l.kind = "object")
        ids == [i \in DOMAIN records |-> PidStr(records[i].post_id)]
    IN  SelectSeq(ids, LAMBDA id : \E q \in DOMAIN merged_df.rows :
                                      merged_df.rows[q].post_id = id)

\* the recorded posts in the order of the rows of the spreadsheet
SheetOrder ==
    LET posts == LoadPosts(sheet)
        rows == [i \in DOMAIN posts |-> ExcelRow(posts[i])]
    IN  SelectSeq(rows, LAMBDA id : \E i \in DOMAIN ArrivalOrder : ArrivalOrder[i] = id)

\* C13 as stated: the order every trend analyzer uses is the exact reverse of
\* the order in which the post records arrived in results.jsonl, for every
\* file the ingestion script can produce, retried posts included.
C13_ChronologyIsReverseOfArrival ==
    \A r \in Returns : r.post_ids = Reverse(ArrivalOrder)

\* C13 as amended: the order every trend analyzer uses is the reverse of the
\* order of the posts in the spreadsheet (descending post_id); it is the
\* reverse of the order of arrival in results.jsonl when the file lists the
\* records in spreadsheet order, which a file holding a retried post need not.
C13_ChronologyIsReverseOfSheetOrder ==
    \A r \in Returns :
        /\ r.post_ids = Reverse(SheetOrder)
        /\ ArrivalOrder = SheetOrder => r.post_ids = Reverse(ArrivalOrder)

\* a second run has recorded post 3 after post 4, and the four analyzers
\* have returned on that file
C13_Witness ==
    /\ runs = 2
    /\ ArrivalOrder = <<"4", "3">>
    /\ \A r \in {rolling_data, escalation_patterns, flag_trends, interval_trends} :
          r.done /\ r.error = "" /\ r.post_ids = <<"4", "3">>

----------------------------------------------------------------------------
(* The ingestion loop *)

\* the post the loop is at
CurrentPost == ExcelRow(LoadPosts(sheet)[cursor])

\* a turn of the loop: a step of a run that is in its loop and is not
\* stopped from outside
LoopTurn == run_pc = "loop" /\ cursor <= Len(LoadPosts(sheet)) /\ run_pc' # "killed"

\* C14: when the call for a post fails or its reply is not valid JSON, no
\* record is written for the post and the loop goes on with the next post;
\* no turn of the loop ends the batch.
C14_PerPostFailureNeverAborts ==
    [][LoopTurn =>
          /\ run_pc' = "loop"
          /\ cursor' = cursor + 1
          /\ last_reply' \in {"exception", "malformed"} => jsonl' = jsonl]_vars

\* the object lines of results.jsonl that hold this identifier
RecordsFor(id) == {i \in DOMAIN jsonl : jsonl[i].kind = "object" /\ jsonl[i].post_id = StrPid(id)}

----------------------------------------------------------------------------
(* generate_all *)

\* the pages a run of generate_all can write
Pages ==
    {analyses_to_run[k].page : k \in DOMAIN analyses_to_run} \cup {IndexPage}

\* C17: when the engagement file does not exist, the run aborts with the
\* reported error: the analysis that reported it is the last one the run
\* started, there is no merged table and the run has written no page.
C17_MissingSourceAbortsTheRun ==
    EngagementFile \notin files =>
        /\ merged_df = NoFrame
        /\ files \cap Pages = {}
        /\ \A k \in DOMAIN reported :
              reported[k].error = "FileNotFoundError" =>
                  /\ suite_pc - 1 \in DOMAIN analyses_to_run
                  /\ analyses_to_run[suite_pc - 1].module = reported[k].module

\* C18: when neither table is empty and no identifier of the personality
\* table is an identifier of the engagement table, load_and_merge_data does
\* not return: it raises a configuration error instead of handing the empty
\* merged table to its caller.
C18_EmptyJoinIsAnError ==
    (/\ EngagementDone
     /\ personality_df.rows # <<>>
     /\ engagement_df.rows # <<>>
     /\ PostIds(personality_df) \cap PostIds(engagement_df) = {}) => ~ Returned

----------------------------------------------------------------------------
(* The self-promotion predictor *)

\* the posts of results.jsonl that have an openness score
Scored == {i \in DOMAIN jsonl : \E j \in DOMAIN jsonl[i].big_five :
                                   jsonl[i].big_five[j].key = "openness"}

\* results.jsonl with the openness score of one of these posts changed
Perturbed(lines, row, score) ==
    [lines EXCEPT ![row].big_five =
        [j \in DOMAIN @ |-> IF @[j].key = "openness"
                             THEN Item("openness", IntCell(score)) ELSE @[j]]]

\* the merged table of the same directory with that score changed
Twin(row, score) == LoadAndMergeData(Perturbed(jsonl, row, score), csv, files).df

\* C19: the scaler parameters and the selected features depend on the rows
\* of the training split only: a merged table that differs from this one
\* in the openness score of a row of the test split gives the same scaler
\* parameters and the same selected features.
C19_FitIndependentOfTestRows ==
    self_promotion_model.done /\ self_promotion_model.error = "" =>
        \A row \in self_promotion_model.test \cap Scored : \A score \in {1, 5} :
            LET twin == BuildSelfPromotionPredictor(Twin(row, score),
                                                    self_promotion_model.test)
            IN  /\ twin.error = ""
                /\ twin.scaler_mean = self_promotion_model.scaler_mean
                /\ twin.scaler_var = self_promotion_model.scaler_var
                /\ twin.selected_features = self_promotion_model.selected_features

----------------------------------------------------------------------------
(* The clustering engine *)

\* C20: two runs of the clustering engine on the same merged table, in
\* processes whose generators start in any two states, give the same chosen
\* k, the same cluster of every post and the same archetype labels (or the
\* same exception).
C20_ClusteringIsReproducible ==
    \A i, j \in DOMAIN archetype_runs :
        archetype_runs[i].result = archetype_runs[j].result

\* two runs from different generator states that clustered every post of
\* the table and named an archetype after its high strategic thinking
C20_Witness ==
    /\ Len(archetype_runs) = 2
    /\ archetype_runs[1].entropy # archetype_runs[2].entropy
    /\ archetype_runs[2].result.error = ""
    /\ archetype_runs[2].result.optimal_k \in 2..max_clusters
    /\ Len(archetype_runs[2].result.cluster_labels) = Len(merged_df.rows)
    /\ Len(archetype_runs[2].result.archetype_labels) = archetype_runs[2].result.optimal_k
    /\ "Strategic Thinking Focused" \in Range(archetype_runs[2].result.archetype_labels)

----------------------------------------------------------------------------
(* The analyzers and the table they are given *)

\* an analyzer that is handed the merged table takes a step
AnalyzerReturns == DetectEscalation \/ FlagTrends \/ FlagIntervalTrends

\* C21: no analyzer changes the merged table it is given: when
\* analyze_flag_trends, analyze_flag_interval_trends or
\* detect_flag_escalation_patterns returns, the table has the columns and
\* the values it had when the analyzer was called.
C21_AnalyzersLeaveTableAlone == [][AnalyzerReturns => merged_df' = merged_df]_vars

\* the self-promotion flag has one value in every row of the table
ConstantTarget(df) ==
    /\ "flag_self_promotion" \in Range(df.columns)
    /\ IntConvertible(df, "flag_self_promotion")
    /\ Cardinality(Classes(Target(df))) = 1

\* C22: when flag_self_promotion has the same value for every post,
\* build_self_promotion_predictor does not raise.
C22_ConstantTargetDoesNotRaise ==
    self_promotion_model.done /\ ConstantTarget(merged_df) =>
        self_promotion_model.error = ""

----------------------------------------------------------------------------
(* The archetype labels *)

\* the centers the finished runs of label_archetypes were given: the
\* position i of the center (counted from 1), its trait profile, its high
\* and low traits and its label
Labelled ==
    UNION {{[i |-> i, trait_profile |-> run.profiles[i].trait_profile,
             high_traits |-> Range(run.profiles[i].high_traits),
             low_traits |-> Range(run.profiles[i].low_traits),
             label |-> run.result.archetype_labels[i]] : i \in DOMAIN run.profiles} :
           run \in Range(archetype_runs)}

\* C23: in label_archetypes a trait is high for a center exactly when the
\* center's value of the trait in the original scale exceeds 4.0, and low
\* exactly when the value is below 2.5; a value equal to 4.0 is not high
\* and a value equal to 2.5 is not low.
C23_HighAboveLowBelow ==
    \A c \in Labelled : \A e \in Range(c.trait_profile) :
        /\ CleanTrait(e.trait) \in c.high_traits <=> Less(IntCell(4), e.value)
        /\ CleanTrait(e.trait) \in c.low_traits <=> Less(e.value, Float(5, 2))

\* C23 as amended: a trait is high exactly when the value is 4.0 or more
\* and low exactly when the value is 2.5 or less; a value equal to 4.0 is
\* high and a value equal to 2.5 is low.
C23_HighFromLowUpTo ==
    \A c \in Labelled : \A e \in Range(c.trait_profile) :
        /\ CleanTrait(e.trait) \in c.high_traits <=> ~ Less(e.value, IntCell(4))
        /\ CleanTrait(e.trait) \in c.low_traits <=> ~ Less(Float(5, 2), e.value)

\* a labelled center with a trait at 4.0 and high, a trait at 2.5 and low,
\* and a labelled center whose traits at 3.0 are neither
C23_Witness ==
    /\ \E c \in Labelled : \E e, o \in Range(c.trait_profile) :
          /\ SameNumber(e.value, IntCell(4)) /\ CleanTrait(e.trait) \in c.high_traits
          /\ SameNumber(o.value, Float(5, 2)) /\ CleanTrait(o.trait) \in c.low_traits
    /\ \E c \in Labelled : \E e \in Range(c.trait_profile) :
          /\ SameNumber(e.value, IntCell(3))
          /\ CleanTrait(e.trait) \notin c.high_traits \cup c.low_traits

\* the rules of label_archetypes in the order of its if/elif chain
archetype_rules ==
    <<[traits |-> {"Strategic Thinking", "Leadership"}, label |-> "Strategic Leader"],
      [traits |-> {"Collaboration", "Agreeableness"}, label |-> "Team Builder"],
      [traits |-> {"Openness", "Risk Tolerance"}, label |-> "Innovation Pioneer"],
      [traits |-> {"Conscientiousness", "Reliability"}, label |-> "Reliable Executor"],
      [traits |-> {"Extraversion", "Leadership"}, label |-> "Charismatic Influencer"],
      [traits |-> {"Integrity Trust", "Reliability"}, label |-> "Trusted Advisor"],
      [traits |-> {"Adaptability", "Openness"}, label |-> "Adaptive Innovator"]>>

\* the rules whose two traits are both high
Matching(high) == {r \in DOMAIN archetype_rules : archetype_rules[r].traits \subseteq high}

\* the traits of a profile whose value no other trait exceeds
TopTraits(trait_profile) ==
    {CleanTrait(e.trait) : e \in {e \in Range(trait_profile) :
                                    \A o \in Range(trait_profile) : ~ Less(e.value, o.value)}}

\* C24: when no rule matches a center, its label is "{T} Focused" where T
\* is the trait with the highest center value, and "Archetype i+1" (i the
\* zero-based position of the center) when no trait is high.
C24_FallbackNamesTheHighestTrait ==
    \A c \in Labelled :
        Matching(c.high_traits) = {} =>
            IF c.high_traits = {} THEN c.label = "Archetype " \o Str(c.i)
            ELSE \E t \in TopTraits(c.trait_profile) : c.label = t \o " Focused"

\* C25: a center's label is that of the first rule, in the order Strategic
\* Leader, Team Builder, Innovation Pioneer, Reliable Executor, Charismatic
\* Influencer, Trusted Advisor, Adaptive Innovator, whose two traits are
\* both high; the label is a fallback label only when no rule matches.
C25_FirstMatchingRuleNames ==
    \A c \in Labelled :
        LET matching == Matching(c.high_traits)
        IN  IF matching = {}
            THEN \A r \in DOMAIN archetype_rules : c.label # archetype_rules[r].label
            ELSE \E r \in matching : /\ \A o \in matching : r <= o
                                     /\ c.label = archetype_rules[r].label

\* a center that two rules match, named by the earlier one, and a center
\* that no rule matches, named by the fallback
C25_Witness ==
    /\ \E c \in Labelled : /\ {1, 2} \subseteq Matching(c.high_traits)
                           /\ c.label = "Strategic Leader"
    /\ \E c \in Labelled : /\ Matching(c.high_traits) = {}
                           /\ c.label = "Archetype 1"

----------------------------------------------------------------------------
(* The number of clusters *)

\* C26: find_optimal_clusters takes the silhouette of every k from 2 to
\* max_clusters and returns the k whose silhouette is greatest, the
\* smallest such k when several share the greatest silhouette.
C26_OptimalKHasTheGreatestSilhouette ==
    archetype_engine.pc \in {"cluster", "label"} =>
        LET scores == archetype_engine.silhouette_scores
            optimal_k == archetype_engine.optimal_k
        IN  /\ DOMAIN scores = 1..(max_clusters - 1)
            /\ optimal_k \in 2..max_clusters
            /\ \A k \in 2..max_clusters : ~ Less(scores[optimal_k - 1], scores[k - 1])
            /\ \A k \in 2..(optimal_k - 1) : Less(scores[k - 1], scores[optimal_k - 1])

\* find_optimal_clusters returned a k above 2 that shares the greatest
\* silhouette with a larger k
C26_Witness ==
    /\ archetype_engine.pc = "cluster"
    /\ archetype_engine.optimal_k > 2
    /\ \E k \in (archetype_engine.optimal_k + 1)..max_clusters :
          SameNumber(archetype_engine.silhouette_scores[k - 1],
                     archetype_engine.silhouette_scores[archetype_engine.optimal_k - 1])

----------------------------------------------------------------------------
(* The trend statistics *)

\* the returned results of the three analyzers that fit a line
Fits == {r \in {rolling_data, escalation_patterns, interval_trends} : r.done}

\* C27: for a metric with too few observations (min_observations rolling
\* values or fewer in the drift and escalation analyzers, two buckets or
\* fewer in the interval analyzer, as in a table of fewer than min_periods
\* posts) the analyzers do not raise and report slope 0, R2 0, escalation
\* score 0 and "Insufficient data".
C27_FewObservationsGiveZeroTrends ==
    /\ Len(merged_df.rows) < min_periods + min_observations =>
          \A r \in Fits : r.error = ""
    /\ rolling_data.done =>
          \A s \in Range(rolling_data.series) :
              Len(s.values) <= min_observations =>
                  /\ s.drift = <<>>
                  /\ \A a \in Range(s.analysis) :
                        EqualsInt(a.slope, 0) /\ EqualsInt(a.r_squared, 0)
    /\ escalation_patterns.done =>
          \A s \in Range(escalation_patterns.series) :
              Len(Dropna(s.values)) <= min_observations =>
                  EqualsInt(s.escalation_score, 0)
    /\ interval_trends.done =>
          \A s \in Range(interval_trends.series) :
              Len(s.values) <= 2 =>
                  /\ EqualsInt(s.trend.slope, 0)
                  /\ EqualsInt(s.trend.r_squared, 0)
                  /\ s.trend.trend_direction = "Insufficient data"

\* the three analyzers returned for a table that gives some trait and some
\* flag between one and min_observations rolling values and two buckets
C27_Witness ==
    /\ Fits = {rolling_data, escalation_patterns, interval_trends}
    /\ \E s \in Range(rolling_data.series) :
          /\ Len(s.values) \in 1..min_observations
          /\ s.analysis # <<>>
    /\ \E s \in Range(escalation_patterns.series) :
          Len(Dropna(s.values)) \in 1..min_observations
    /\ \E s \in Range(interval_trends.series) : Len(s.values) = 2

\* c < 1/100 for a finite cell
BelowThreshold(c) == c.n <= (slope_threshold * c.d - 1) \div 100

Opposite(c) == [c EXCEPT !.n = - c.n]

\* the label the dead zone gives a slope
DeadZoneDirection(slope) ==
    IF ~ BelowThreshold(slope) THEN "increasing"
    ELSE IF ~ BelowThreshold(Opposite(slope)) THEN "decreasing"
    ELSE "stable"

\* C28: the direction of a fitted line is "stable" when the absolute value
\* of its slope is below the threshold 0.01, "increasing" when the slope is
\* 0.01 or more and "decreasing" when it is -0.01 or less, in the drift
\* analysis of generate_evolution_tracking and in
\* analyze_flag_interval_trends.
C28_DeadZoneDecidesDirection ==
    /\ rolling_data.done =>
          \A s \in Range(rolling_data.series) : \A d \in Range(s.drift) :
              d.direction = DeadZoneDirection(d.slope)
    /\ interval_trends.done =>
          \A s \in Range(interval_trends.series) :
              Len(s.values) > 2 /\ IsFinite(s.trend.slope) =>
                  s.trend.trend_direction =
                      CASE DeadZoneDirection(s.trend.slope) = "increasing" -> "Increasing"
                        [] DeadZoneDirection(s.trend.slope) = "decreasing" -> "Decreasing"
                        [] OTHER -> "Stable"

----------------------------------------------------------------------------
(* The identifiers of the two sources *)

\* the posts fill the rows of the sheet below the two header rows without
\* blanks, and the CSV lists as many rows
SheetFilled ==
    /\ \A i \in 3..Len(sheet) : sheet[i]
    /\ Len(csv) = Len(sheet) - 2

Distinct(ids) == \A i, j \in DOMAIN ids : i # j => ids[i] # ids[j]

\* C29: for a sheet whose posts fill rows 3..n+2 without blanks and an
\* engagement table of the same n posts in the same order, the post at
\* position k has the same post_id in both sources -- str(k+3) from
\* load_engagement_data, str(idx+1) from the ingestion script -- and the
\* identifiers of each source are pairwise distinct.
C29_IdentifierSchemesLineUp ==
    SheetFilled =>
        LET posts == LoadPosts(sheet)
            excel_rows == [k \in DOMAIN posts |-> ExcelRow(posts[k])]
        IN  /\ Distinct(excel_rows)
            /\ Distinct([i \in DOMAIN jsonl |-> jsonl[i].post_id])
            /\ \A i \in DOMAIN jsonl :
                  \E k \in DOMAIN posts : jsonl[i].post_id = StrPid(excel_rows[k])
            /\ last_reply = "object" =>
                  jsonl[Len(jsonl)].post_id = StrPid(EngagementPostId(cursor - 2))
            /\ engagement_df # NoFrame =>
                  /\ Distinct([k \in DOMAIN engagement_df.rows |->
                                 engagement_df.rows[k].post_id])
                  /\ DOMAIN engagement_df.rows = DOMAIN posts
                  /\ \A k \in DOMAIN posts :
                        engagement_df.rows[k].post_id = excel_rows[k]

\* a filled sheet of two posts or more, every post recorded, the last one
\* in the turn before, and the engagement table loaded
C29_Witness ==
    /\ SheetFilled
    /\ Len(sheet) >= 4
    /\ Len(jsonl) = Len(sheet) - 2
    /\ last_reply = "object"
    /\ engagement_df # NoFrame
    /\ Len(engagement_df.rows) = Len(jsonl)

----------------------------------------------------------------------------
(* Repeated runs of the ingestion script *)

\* results.jsonl holds a record for every post of the spreadsheet
AllRecorded ==
    \A k \in DOMAIN LoadPosts(sheet) : RecordsFor(ExcelRow(LoadPosts(sheet)[k])) # {}

\* C30: a post whose annotation failed in a run gets no record, so a later
\* run whose loop comes to it calls the model for it again; and when the
\* script is run again and again and the call for every post eventually
\* returns valid JSON, then eventually results.jsonl holds a record for
\* every post of the spreadsheet, and from then on a run writes nothing.
C30_EveryPostIsEventuallyRecorded ==
    /\ [][LoopTurn /\ last_reply' \notin {"object", "skipped"} => jsonl' = jsonl]_vars
    /\ [][LoopTurn /\ RecordsFor(CurrentPost) = {} => last_reply' # "skipped"]_vars
    /\ [][AllRecorded => jsonl' = jsonl]_vars
    /\ <>[]AllRecorded

====
